---------------------------- MODULE Spec2Model ----------------------------
(***************************************************************************)
(* SCIM-to-LDAP bridge: the attribute mapper, the filter/DN escapers, the  *)
(* directory operation executor (LdapClient, with its fire-and-forget      *)
(* audit trail) and the backend orchestrator (LdapBackend).                *)
(*                                                                         *)
(* Strings are TLA+ strings; the character-level functions of the source   *)
(* (split, includes, toLowerCase, replace) are computed on them with Len,  *)
(* SubSeq and \o.  JavaScript's undefined and null are the two marker      *)
(* strings below; an object is a function whose DOMAIN is the set of keys  *)
(* that are present, so `x.k !== undefined` is `k \in DOMAIN x`.           *)
(***************************************************************************)
EXTENDS Integers, Sequences, FiniteSets, TLC

undefined == "<undefined>"
null == "<null>"

EmptyObj == [k \in {} |-> undefined]

\* obj[k] of JavaScript: undefined when the key is absent
Get(obj, k) == IF k \in DOMAIN obj THEN obj[k] ELSE undefined

\* a ?? b
Nullish(v) == v = undefined \/ v = null
Coalesce(a, b) == IF Nullish(a) THEN b ELSE a

\* truthiness of a string-or-absent value
Truthy(v) == ~Nullish(v) /\ v # ""

\* { ...(cond ? {k: v} : {}) }
Opt(cond, k, v) == IF cond THEN k :> v ELSE EmptyObj

-----------------------------------------------------------------------------
(* String primitives of the source language *)

\* s.includes(p)
Includes(s, p) ==
  \E i \in 0..(Len(s) - Len(p)) : SubSeq(s, i + 1, i + Len(p)) = p

\* position of the first occurrence of the one-character string c, 0 if none
IndexOf(s, c) ==
  IF \E i \in 1..Len(s) : SubSeq(s, i, i) = c
  THEN CHOOSE i \in 1..Len(s) :
         /\ SubSeq(s, i, i) = c
         /\ \A j \in 1..(i - 1) : SubSeq(s, j, j) # c
  ELSE 0

\* s.split(c)[0]
SplitFirst(s, c) ==
  IF IndexOf(s, c) = 0 THEN s ELSE SubSeq(s, 1, IndexOf(s, c) - 1)

\* s.replace(/c/g, r) for a one-character c
RECURSIVE ReplaceAll(_, _, _)
ReplaceAll(s, c, r) ==
  IF s = "" THEN ""
  ELSE (IF SubSeq(s, 1, 1) = c THEN r ELSE SubSeq(s, 1, 1))
       \o ReplaceAll(SubSeq(s, 2, Len(s)), c, r)

LowerChar(c) ==
  CASE c = "A" -> "a" [] c = "B" -> "b" [] c = "C" -> "c" [] c = "D" -> "d"
    [] c = "E" -> "e" [] c = "F" -> "f" [] c = "G" -> "g" [] c = "H" -> "h"
    [] c = "I" -> "i" [] c = "J" -> "j" [] c = "K" -> "k" [] c = "L" -> "l"
    [] c = "M" -> "m" [] c = "N" -> "n" [] c = "O" -> "o" [] c = "P" -> "p"
    [] c = "Q" -> "q" [] c = "R" -> "r" [] c = "S" -> "s" [] c = "T" -> "t"
    [] c = "U" -> "u" [] c = "V" -> "v" [] c = "W" -> "w" [] c = "X" -> "x"
    [] c = "Y" -> "y" [] c = "Z" -> "z" [] OTHER -> c

\* s.toLowerCase()
RECURSIVE ToLowerCase(_)
ToLowerCase(s) ==
  IF s = "" THEN ""
  ELSE LowerChar(SubSeq(s, 1, 1)) \o ToLowerCase(SubSeq(s, 2, Len(s)))

-----------------------------------------------------------------------------
(* Filter / DN escaping (backend.ts) *)

\* stand-in for the character U+0000, which a TLA+ string cannot hold
NUL == "\t"

\* the filter escaper with the backslash substitution made last
escapeLdap_backslashLast(value) ==
  ReplaceAll(
    ReplaceAll(
      ReplaceAll(
        ReplaceAll(
          ReplaceAll(value, "*", "\\2a"),
          "(", "\\28"),
        ")", "\\29"),
      NUL, "\\00"),
    "\\", "\\5c")

escapeLdap(value) ==
  ReplaceAll(
    ReplaceAll(
      ReplaceAll(
        ReplaceAll(
          ReplaceAll(value, "\\", "\\5c"),
          "*", "\\2a"),
        "(", "\\28"),
      ")", "\\29"),
    NUL, "\\00")

\* .replace(/^[ #]/, c => '\\' + c)
EscapeLeading(s) ==
  IF s # "" /\ SubSeq(s, 1, 1) \in {" ", "#"} THEN "\\" \o s ELSE s

\* .replace(/[ ]$/, '\\ ')
EscapeTrailing(s) ==
  IF s # "" /\ SubSeq(s, Len(s), Len(s)) = " "
  THEN SubSeq(s, 1, Len(s) - 1) \o "\\ "
  ELSE s

escapeDn(value) ==
  EscapeTrailing(
    EscapeLeading(
      ReplaceAll(
        ReplaceAll(
          ReplaceAll(
            ReplaceAll(
              ReplaceAll(
                ReplaceAll(
                  ReplaceAll(value, "\\", "\\\\"),
                  ",", "\\,"),
                "+", "\\+"),
              "\"", "\\\""),
            "<", "\\<"),
          ">", "\\>"),
        ";", "\\;")))

-----------------------------------------------------------------------------
(* Identity / attribute mapper (ldap-client.ts, mapping section)            *)
(*                                                                         *)
(* A ScimUser is an object with keys among userName, displayName, name     *)
(* (an object with givenName, familyName), externalId, emails (a sequence  *)
(* of objects with value, primary), active (a BOOLEAN), id.                *)
(* An attribute bag maps attribute names to strings, objectClass to a      *)
(* sequence of strings.  A directory entry is [dn, attrs] with every       *)
(* attribute value a sequence of strings.                                  *)

LOCKED_TIME == "000001010000Z"

\* user.name?.givenName, user.name?.familyName
NamePart(user, part) ==
  IF "name" \in DOMAIN user THEN Get(user.name, part) ELSE undefined

\* user.emails?.find((e) => e.primary) ?? user.emails?.[0]
PrimaryEmail(user) ==
  IF "emails" \notin DOMAIN user \/ Len(user.emails) = 0 THEN EmptyObj
  ELSE IF \E i \in 1..Len(user.emails) : user.emails[i].primary
       THEN user.emails[CHOOSE i \in 1..Len(user.emails) :
                          /\ user.emails[i].primary
                          /\ \A j \in 1..(i - 1) : ~user.emails[j].primary]
       ELSE user.emails[1]

HasPrimaryEmail(user) == "emails" \in DOMAIN user /\ Len(user.emails) > 0

\* the attribute bag with the lock set unless the user is explicitly active
scimToLdapAttrs_locksUnlessActive(user) ==
  LET uid == SplitFirst(user.userName, "@")
      displayName == Get(user, "displayName")
      familyName == NamePart(user, "familyName")
      givenName == NamePart(user, "givenName")
      externalId == Get(user, "externalId")
      mail == Get(PrimaryEmail(user), "value")
  IN  Opt(~("active" \in DOMAIN user /\ user.active = TRUE),
          "pwdAccountLockedTime", LOCKED_TIME)
      @@ Opt(Truthy(mail), "mail", mail)
      @@ Opt(Truthy(externalId), "employeeNumber", externalId)
      @@ Opt(Truthy(displayName), "displayName", displayName)
      @@ Opt(Truthy(givenName), "givenName", givenName)
      @@ ("sn" :> (IF Truthy(familyName) THEN familyName ELSE uid))
      @@ ("cn" :> Coalesce(displayName, uid))
      @@ ("uid" :> uid)

scimToLdapAttrs(user) ==
  LET uid == SplitFirst(user.userName, "@")
      displayName == Get(user, "displayName")
      familyName == NamePart(user, "familyName")
      givenName == NamePart(user, "givenName")
      externalId == Get(user, "externalId")
      mail == Get(PrimaryEmail(user), "value")
  IN  Opt("active" \in DOMAIN user /\ user.active = FALSE,
          "pwdAccountLockedTime", LOCKED_TIME)
      @@ Opt(Truthy(mail), "mail", mail)
      @@ Opt(Truthy(externalId), "employeeNumber", externalId)
      @@ Opt(Truthy(displayName), "displayName", displayName)
      @@ Opt(Truthy(givenName), "givenName", givenName)
      @@ ("sn" :> (IF Truthy(familyName) THEN familyName ELSE uid))
      @@ ("cn" :> Coalesce(displayName, uid))
      @@ ("uid" :> uid)

\* value === null ? null : [value]; the null of a modification's value is
\* the tuple NullValue, which no caller passes as a list of values
NullValue == <<null>>

\* the inner helper `set` of scimToLdapModifications
SetMod(attr, value) ==
  IF value # undefined
  THEN <<[attribute |-> attr,
          value |-> IF value = null THEN NullValue ELSE <<value>>]>>
  ELSE <<>>

scimToLdapModifications(partial) ==
  LET userName == Get(partial, "userName")
      displayName == Get(partial, "displayName")
      givenName == NamePart(partial, "givenName")
      familyName == NamePart(partial, "familyName")
      externalId == Get(partial, "externalId")
      primaryEmail == PrimaryEmail(partial)
      uidOrUndef == IF userName = undefined THEN undefined
                    ELSE SplitFirst(userName, "@")
  IN  (IF userName # undefined THEN SetMod("uid", uidOrUndef) ELSE <<>>)
      \o (IF displayName # undefined
          THEN SetMod("displayName", Coalesce(displayName, null))
               \o SetMod("cn", Coalesce(displayName, Coalesce(uidOrUndef, null)))
          ELSE <<>>)
      \o (IF givenName # undefined
          THEN SetMod("givenName", Coalesce(givenName, null)) ELSE <<>>)
      \o (IF familyName # undefined
          THEN SetMod("sn", Coalesce(familyName, null)) ELSE <<>>)
      \o (IF externalId # undefined
          THEN SetMod("employeeNumber", Coalesce(externalId, null)) ELSE <<>>)
      \o (IF HasPrimaryEmail(partial)
          THEN SetMod("mail", Coalesce(Get(primaryEmail, "value"), null))
          ELSE <<>>)
      \o (IF "active" \in DOMAIN partial
          THEN <<[attribute |-> "pwdAccountLockedTime",
                  value |-> IF partial.active THEN NullValue
                            ELSE <<LOCKED_TIME>>]>>
          ELSE <<>>)

\* firstString(entry[attr]): attribute values are sequences in the model
firstString(entry, attr) ==
  IF attr \notin DOMAIN entry.attrs THEN undefined
  ELSE IF Len(entry.attrs[attr]) = 0 THEN undefined
  ELSE entry.attrs[attr][1]

\* s.replace(/^uid=/i, '')
StripUidPrefix(s) ==
  IF Len(s) >= 4 /\ ToLowerCase(SubSeq(s, 1, 4)) = "uid="
  THEN SubSeq(s, 5, Len(s)) ELSE s

ldapEntryToScimUser(entry) ==
  LET id == Coalesce(firstString(entry, "entryUUID"), entry.dn)
      userName == Coalesce(firstString(entry, "uid"),
                           StripUidPrefix(SplitFirst(entry.dn, ",")))
      givenName == firstString(entry, "givenName")
      familyName == firstString(entry, "sn")
      hasName == Truthy(Coalesce(givenName, familyName))
      lockedTime == firstString(entry, "pwdAccountLockedTime")
      mail == firstString(entry, "mail")
      externalId == firstString(entry, "employeeNumber")
      displayName == firstString(entry, "displayName")
  IN  [id |-> id, userName |-> userName, active |-> (lockedTime # LOCKED_TIME)]
      @@ Opt(externalId # undefined, "externalId", externalId)
      @@ Opt(displayName # undefined, "displayName", displayName)
      @@ Opt(hasName, "name",
             Opt(Truthy(givenName), "givenName", givenName)
             @@ Opt(Truthy(familyName), "familyName", familyName))
      @@ Opt(Truthy(mail), "emails",
             <<[value |-> mail, type |-> "work", primary |-> TRUE]>>)

-----------------------------------------------------------------------------
(* The directory server behind the ldapts client.                          *)
(*                                                                         *)
(* The directory is a sequence of entries in result order.  Every call can *)
(* fail with a fault the environment picks ("ok" when it does not); the    *)
(* server itself rejects an add to an existing DN and a modify or delete   *)
(* of a missing DN.  Matching is exact on attribute names and values.      *)

ErrAlreadyExists == "Error: Entry Already Exists"
ErrNoSuchObject == "Error: No Such Object"
ErrInvalidFilter == "Error: filter is malformed"

HexChar(h) ==
  CASE h = "5c" -> "\\" [] h = "2a" -> "*" [] h = "28" -> "("
    [] h = "29" -> ")" [] h = "00" -> NUL [] OTHER -> undefined

\* RFC 4515 assertion value against a string: * is any substring, \XX a
\* character by its code, every other character itself
RECURSIVE GlobMatch(_, _)
GlobMatch(pat, s) ==
  IF pat = "" THEN s = ""
  ELSE IF SubSeq(pat, 1, 1) = "*"
       THEN \E k \in 0..Len(s) :
              GlobMatch(SubSeq(pat, 2, Len(pat)), SubSeq(s, k + 1, Len(s)))
  ELSE IF SubSeq(pat, 1, 1) = "\\"
       THEN /\ Len(pat) >= 3
            /\ s # ""
            /\ SubSeq(s, 1, 1) = HexChar(SubSeq(pat, 2, 3))
            /\ GlobMatch(SubSeq(pat, 4, Len(pat)), SubSeq(s, 2, Len(s)))
  ELSE /\ s # ""
       /\ SubSeq(s, 1, 1) = SubSeq(pat, 1, 1)
       /\ GlobMatch(SubSeq(pat, 2, Len(pat)), SubSeq(s, 2, Len(s)))

\* first position >= i of the one-character string c in f, 0 if none
FindFrom(f, i, c) ==
  IF \E j \in i..Len(f) : SubSeq(f, j, j) = c
  THEN CHOOSE j \in i..Len(f) :
         /\ SubSeq(f, j, j) = c
         /\ \A k \in i..(j - 1) : SubSeq(f, k, k) # c
  ELSE 0

AttrMatches(entry, attr, pat) ==
  /\ attr \in DOMAIN entry.attrs
  /\ \E n \in 1..Len(entry.attrs[attr]) : GlobMatch(pat, entry.attrs[attr][n])

BadParse == [ok |-> FALSE, val |-> FALSE, next |-> 0]

\* evaluates the filter that starts at position i of f on one entry:
\* [ok: it parses, val: it matches, next: the position after it]
RECURSIVE EvalFilter(_, _, _)
RECURSIVE EvalList(_, _, _, _)
EvalList(f, i, entry, acc) ==
  IF i <= Len(f) /\ SubSeq(f, i, i) = "("
  THEN LET r == EvalFilter(f, i, entry)
       IN  IF r.ok
           THEN EvalList(f, r.next, entry,
                         [n |-> acc.n + 1, all |-> acc.all /\ r.val,
                          any |-> acc.any \/ r.val])
           ELSE [ok |-> FALSE, n |-> 0, all |-> FALSE, any |-> FALSE, next |-> 0]
  ELSE [ok |-> TRUE, n |-> acc.n, all |-> acc.all, any |-> acc.any, next |-> i]

EvalFilter(f, i, entry) ==
  IF i + 1 > Len(f) \/ SubSeq(f, i, i) # "(" THEN BadParse
  ELSE IF SubSeq(f, i + 1, i + 1) \in {"&", "|"}
  THEN LET l == EvalList(f, i + 2, entry,
                         [n |-> 0, all |-> TRUE, any |-> FALSE])
       IN  IF l.ok /\ l.n > 0 /\ l.next <= Len(f)
              /\ SubSeq(f, l.next, l.next) = ")"
           THEN [ok |-> TRUE,
                 val |-> IF SubSeq(f, i + 1, i + 1) = "&" THEN l.all ELSE l.any,
                 next |-> l.next + 1]
           ELSE BadParse
  ELSE IF SubSeq(f, i + 1, i + 1) = "!"
  THEN LET r == EvalFilter(f, i + 2, entry)
       IN  IF r.ok /\ r.next <= Len(f) /\ SubSeq(f, r.next, r.next) = ")"
           THEN [ok |-> TRUE, val |-> ~r.val, next |-> r.next + 1]
           ELSE BadParse
  ELSE LET close == FindFrom(f, i + 1, ")")
           eq == FindFrom(f, i + 1, "=")
       IN  IF close = 0 \/ eq = 0 \/ eq > close \/ eq = i + 1 THEN BadParse
           ELSE [ok |-> TRUE,
                 val |-> AttrMatches(entry, SubSeq(f, i + 1, eq - 1),
                                     SubSeq(f, eq + 1, close - 1)),
                 next |-> close + 1]

NoEntry == [dn |-> "", attrs |-> EmptyObj]

FilterParses(f) ==
  LET r == EvalFilter(f, 1, NoEntry) IN r.ok /\ r.next = Len(f) + 1

FilterMatches(f, entry) == EvalFilter(f, 1, entry).val

\* the attributes a search returns: "*" is every user attribute, the
\* operational attribute entryUUID only when it is asked for by name
Project(entry, attributes) ==
  LET asked == {attributes[n] : n \in 1..Len(attributes)}
      keep == {a \in DOMAIN entry.attrs :
                 \/ a \in asked
                 \/ ("*" \in asked /\ a # "entryUUID")}
  IN  [dn |-> entry.dn, attrs |-> [a \in keep |-> entry.attrs[a]]]

\* client.search(baseDn, {filter, attributes, scope: 'sub'})
client_search(d, filter, attributes, fault) ==
  IF fault # "ok" THEN [err |-> fault, entries |-> <<>>]
  ELSE IF ~FilterParses(filter) THEN [err |-> ErrInvalidFilter, entries |-> <<>>]
  ELSE LET Keep(e) == FilterMatches(filter, e)
           hits == SelectSeq(d, Keep)
       IN  [err |-> "ok",
            entries |-> [n \in 1..Len(hits) |-> Project(hits[n], attributes)]]

HasDn(d, dn) == \E n \in 1..Len(d) : d[n].dn = dn

\* values are always lists in the directory: a string becomes a singleton
AsList(attr, v) == IF attr = "objectClass" THEN v ELSE <<v>>

\* client.add(dn, attrs): the server assigns the entryUUID
client_add(d, dn, attrs, uuid, fault) ==
  IF fault # "ok" THEN [err |-> fault, dir |-> d]
  ELSE IF HasDn(d, dn) THEN [err |-> ErrAlreadyExists, dir |-> d]
  ELSE [err |-> "ok",
        dir |-> Append(d, [dn |-> dn,
                           attrs |-> ("entryUUID" :> <<uuid>>)
                                     @@ [a \in DOMAIN attrs |-> AsList(a, attrs[a])]])]

\* one Change applied to an attribute map: delete removes the attribute,
\* replace sets its values
ApplyChange(attrs, change) ==
  IF change.operation = "delete"
  THEN [a \in DOMAIN attrs \ {change.type} |-> attrs[a]]
  ELSE (change.type :> change.values) @@ attrs

RECURSIVE ApplyChanges(_, _)
ApplyChanges(attrs, changes) ==
  IF changes = <<>> THEN attrs
  ELSE ApplyChanges(ApplyChange(attrs, Head(changes)), Tail(changes))

\* client.modify(dn, changes): all changes or none
client_modify(d, dn, changes, fault) ==
  IF fault # "ok" THEN [err |-> fault, dir |-> d]
  ELSE IF ~HasDn(d, dn) THEN [err |-> ErrNoSuchObject, dir |-> d]
  ELSE [err |-> "ok",
        dir |-> [n \in 1..Len(d) |->
                   IF d[n].dn = dn
                   THEN [dn |-> dn, attrs |-> ApplyChanges(d[n].attrs, changes)]
                   ELSE d[n]]]

\* client.del(dn)
client_del(d, dn, fault) ==
  IF fault # "ok" THEN [err |-> fault, dir |-> d]
  ELSE IF ~HasDn(d, dn) THEN [err |-> ErrNoSuchObject, dir |-> d]
  ELSE LET Keep(e) == e.dn # dn
       IN  [err |-> "ok", dir |-> SelectSeq(d, Keep)]

-----------------------------------------------------------------------------
(* Configuration (config.ts) and the inputs the callers draw from *)

BaseDn == "dc=example,dc=com"
UserObjectClass == <<"top", "inetOrgPerson", "organizationalPerson", "person">>

\* bounds of the model
MaxOps == 2
MaxAuditFailures == 1

Procs == {"p1", "p2"}

\* faults the environment can inject into any directory call
ErrInsufficientAccess == "Error: Insufficient Access Rights"
Faults == {"ok", ErrInsufficientAccess}

\* the entryUUID the server assigns to its n-th entry
Uuid(n) == "uuid-" \o ToString(n)

AliceEntry ==
  [dn |-> "uid=alice,dc=example,dc=com",
   attrs |-> [objectClass |-> UserObjectClass, uid |-> <<"alice">>,
              cn |-> <<"alice">>, sn |-> <<"alice">>,
              description |-> <<"staff">>, entryUUID |-> <<Uuid(1)>>]]

CarolEntry ==
  [dn |-> "uid=carol,dc=example,dc=com",
   attrs |-> [objectClass |-> UserObjectClass, uid |-> <<"carol">>,
              cn |-> <<"Carol C">>, sn |-> <<"C">>, displayName |-> <<"Carol C">>,
              mail |-> <<"carol@example.com">>,
              pwdAccountLockedTime |-> <<LOCKED_TIME>>,
              entryUUID |-> <<Uuid(2)>>]]

\* directories the server can hold when the bridge starts
InitialDirs == <<(<<>>), <<AliceEntry, CarolEntry>>>>

Users ==
  <<[userName |-> "alice@example.com", active |-> TRUE],
    [userName |-> "bob", displayName |-> "Bob B",
     name |-> [givenName |-> "Bob", familyName |-> "B"], externalId |-> "e7",
     emails |-> <<[value |-> "b@work", primary |-> FALSE],
                  [value |-> "bob@example.com", primary |-> TRUE]>>,
     active |-> FALSE],
    [userName |-> "d,e@example.com"]>>

Ids == {Uuid(1), Uuid(2), Uuid(3), "nonexistent-uuid", "*"}

\* SCIM PATCH operations [op, path, value]
Patches ==
  <<(<<[op |-> "replace", path |-> "active", value |-> FALSE]>>),
    <<[op |-> "replace", path |-> "displayName", value |-> "Al"]>>,
    <<[op |-> "replace", path |-> "name.familyName", value |-> "Liddell"],
      [op |-> "replace", path |-> "active", value |-> TRUE]>>,
    <<[op |-> "remove", path |-> "externalId", value |-> null]>>,
    (<<>>)>>

ListInputs ==
  <<[startIndex |-> 1, count |-> 100],
    [filter |-> [attribute |-> "userName", operator |-> "eq", value |-> "alice"],
     startIndex |-> 1, count |-> 1],
    [filter |-> [attribute |-> "ID", operator |-> "eq", value |-> "*"],
     startIndex |-> 2, count |-> 1],
    [filter |-> [attribute |-> "title", operator |-> "eq", value |-> "x"],
     startIndex |-> 1, count |-> 0],
    [filter |-> [attribute |-> "externalId", operator |-> "co", value |-> "e"],
     startIndex |-> 2, count |-> 5]>>

\* the `attributes` argument of search when the caller passes none
NoAttributes == <<undefined>>

\* what another caller of the LdapClient passes to it directly
DirectSearches ==
  <<[filter |-> "(uid=alice)", attributes |-> NoAttributes],
    [filter |-> "(objectClass=person)", attributes |-> <<"uid", "cn">>],
    [filter |-> "(uid=alice", attributes |-> NoAttributes]>>

DirectAdds ==
  <<[dn |-> "uid=eve,dc=example,dc=com",
     attrs |-> [objectClass |-> UserObjectClass, uid |-> "eve", cn |-> "eve",
                sn |-> "eve", userPassword |-> "s3cret"],
     scimUserId |-> undefined],
    [dn |-> "uid=alice,dc=example,dc=com",
     attrs |-> [objectClass |-> UserObjectClass, uid |-> "alice", cn |-> "alice",
                sn |-> "alice", UnicodePwd |-> "s3cret"],
     scimUserId |-> "e1"]>>

DirectModifies ==
  <<[dn |-> "uid=alice,dc=example,dc=com", mods |-> <<>>, scimUserId |-> undefined],
    [dn |-> "uid=alice,dc=example,dc=com",
     mods |-> <<[attribute |-> "userPassword", value |-> <<"n3w">>]>>,
     scimUserId |-> Uuid(1)],
    [dn |-> "uid=carol,dc=example,dc=com",
     mods |-> <<[attribute |-> "mail", value |-> NullValue],
                [attribute |-> "cn", value |-> <<"Carol">>]>>,
     scimUserId |-> undefined]>>

DirectDeletes ==
  <<[dn |-> "uid=alice,dc=example,dc=com", scimUserId |-> Uuid(1)],
    [dn |-> "uid=zed,dc=example,dc=com", scimUserId |-> undefined]>>

-----------------------------------------------------------------------------
(* State *)

VARIABLES
  dir,       \* the directory server's entries, in result order
  nextUuid,  \* how many entryUUIDs the server has assigned
  audits,    \* the ldap_operations rows dispatched so far, with the state
             \* of each insert: "pending", "stored" or "failed"
  inv,       \* per caller: the invocation it is running or has finished
  started,   \* the number of invocations started
  dirCalls   \* the calls the ldapts client has completed, in order

vars == <<dir, nextUuid, audits, inv, started, dirCalls>>

NoResult ==
  [kind |-> "none", status |-> 0, scimType |-> undefined,
   message |-> undefined, value |-> null]

\* a value returned to the caller
Returned(v) ==
  [kind |-> "ok", status |-> 0, scimType |-> undefined,
   message |-> undefined, value |-> v]

\* new ScimBackendError(status, message, scimType)
ScimBackendError(status, message, scimType) ==
  [kind |-> "ScimBackendError", status |-> status, scimType |-> scimType,
   message |-> message, value |-> null]

\* an error of the directory client thrown on, unmapped
RawError(err) ==
  [kind |-> "raw", status |-> 0, scimType |-> undefined,
   message |-> err, value |-> null]

NotFound(id) ==
  ScimBackendError(404, "User " \o id \o " not found.", "noTarget")

IdleInv ==
  [op |-> "none", pc |-> "idle", id |-> undefined, user |-> EmptyObj,
   patch |-> <<>>, args |-> EmptyObj, uid |-> undefined, entry |-> NoEntry,
   mods |-> <<>>,
   held |-> FALSE, no |-> 0, mixed |-> FALSE, calls |-> <<>>, nAudits |-> 0,
   lastAudit |-> 0, result |-> NoResult]

Init ==
  /\ \E n \in 1..Len(InitialDirs) :
       /\ dir = InitialDirs[n]
       /\ nextUuid = Len(InitialDirs[n])
  /\ audits = <<>>
  /\ inv = [p \in Procs |-> IdleInv]
  /\ started = 0
  /\ dirCalls = <<>>

-----------------------------------------------------------------------------
(* Directory operation executor (LdapClient)                               *)
(*                                                                         *)
(* Each operator is one call of the method: what the directory becomes,    *)
(* the audit rows the call dispatches and what the caller gets (err is     *)
(* "ok" or the error re-raised).                                           *)

SENSITIVE_ATTRS == {"userpassword", "password", "unicodepwd"}
REDACTED == "***REDACTED***"

sanitizeAttrs(attrs) ==
  [k \in DOMAIN attrs |->
     IF ToLowerCase(k) \in SENSITIVE_ATTRS THEN REDACTED ELSE attrs[k]]

\* the row LdapClient.audit hands to db('ldap_operations').insert; the
\* insert is dispatched, not awaited.  attributes_json keeps the object that
\* JSON.stringify serialises; duration_ms, a wall-clock difference, is left out
audit(operation, dn, attributes, resultCode, errorMessage, scimUserId) ==
  [operation |-> operation,
   dn |-> Coalesce(dn, null),
   attributes_json |-> attributes,
   result_code |-> resultCode,
   error_message |-> Coalesce(errorMessage, null),
   scim_user_id |-> Coalesce(scimUserId, null),
   st |-> "pending"]

\* attributes ?? ['*', 'entryUUID']
RequestedAttributes(attributes) ==
  IF attributes = NoAttributes THEN <<"*", "entryUUID">> ELSE attributes

LdapClient_search(filter, attributes, fault) ==
  LET out == client_search(dir, filter, RequestedAttributes(attributes), fault)
  IN  [err |-> out.err, entries |-> out.entries, dir |-> dir, added |-> 0,
       called |-> TRUE, uuid |-> undefined,
       rows |-> IF out.err = "ok"
                THEN <<audit("search", undefined, [filter |-> filter], 0,
                             undefined, undefined)>>
                ELSE <<audit("search", undefined, [filter |-> filter], 1,
                             out.err, undefined)>>]

LdapClient_add(dn, attrs, scimUserId, fault) ==
  LET safeAttrs == sanitizeAttrs(attrs)
      out == client_add(dir, dn, attrs, Uuid(nextUuid + 1), fault)
  IN  [err |-> out.err, entries |-> <<>>, dir |-> out.dir,
       added |-> IF out.err = "ok" THEN 1 ELSE 0,
       called |-> TRUE, uuid |-> Uuid(nextUuid + 1),
       rows |-> IF out.err = "ok"
                THEN <<audit("add", dn, safeAttrs, 0, undefined, scimUserId)>>
                ELSE <<audit("add", dn, safeAttrs, 1, out.err, scimUserId)>>]

\* mods.map(({attribute, value}) => new Change(...))
ToChange(mod) ==
  IF mod.value = NullValue
  THEN [operation |-> "delete", type |-> mod.attribute]
  ELSE [operation |-> "replace", type |-> mod.attribute, values |-> mod.value]

\* Object.fromEntries(mods.map((m) => [m.attribute, m.value]))
RECURSIVE ModsObject(_)
ModsObject(mods) ==
  IF mods = <<>> THEN EmptyObj
  ELSE (mods[Len(mods)].attribute :> mods[Len(mods)].value)
       @@ ModsObject(SubSeq(mods, 1, Len(mods) - 1))

\* modify without the early return on an empty list of modifications
LdapClient_modify_noEarlyReturn(dn, mods, scimUserId, fault) ==
  LET changes == [n \in 1..Len(mods) |-> ToChange(mods[n])]
      safeAttrs == ModsObject(mods)
      out == client_modify(dir, dn, changes, fault)
  IN  [err |-> out.err, entries |-> <<>>, dir |-> out.dir, added |-> 0,
       called |-> TRUE, uuid |-> undefined,
       rows |-> IF out.err = "ok"
                THEN <<audit("modify", dn, safeAttrs, 0, undefined, scimUserId)>>
                ELSE <<audit("modify", dn, safeAttrs, 1, out.err, scimUserId)>>]

LdapClient_modify(dn, mods, scimUserId, fault) ==
  IF Len(mods) = 0
  THEN [err |-> "ok", entries |-> <<>>, dir |-> dir, added |-> 0,
        called |-> FALSE, uuid |-> undefined, rows |-> <<>>]
  ELSE LET changes == [n \in 1..Len(mods) |-> ToChange(mods[n])]
           safeAttrs == ModsObject(mods)
           out == client_modify(dir, dn, changes, fault)
       IN  [err |-> out.err, entries |-> <<>>, dir |-> out.dir, added |-> 0,
            called |-> TRUE, uuid |-> undefined,
            rows |-> IF out.err = "ok"
                     THEN <<audit("modify", dn, safeAttrs, 0, undefined, scimUserId)>>
                     ELSE <<audit("modify", dn, safeAttrs, 1, out.err, scimUserId)>>]

\* delete that dispatches an audit row only when the directory call succeeds
LdapClient_delete_silentFailure(dn, scimUserId, fault) ==
  LET out == client_del(dir, dn, fault)
  IN  [err |-> out.err, entries |-> <<>>, dir |-> out.dir, added |-> 0,
       called |-> TRUE, uuid |-> undefined,
       rows |-> IF out.err = "ok"
                THEN <<audit("delete", dn, EmptyObj, 0, undefined, scimUserId)>>
                ELSE <<>>]

LdapClient_delete(dn, scimUserId, fault) ==
  LET out == client_del(dir, dn, fault)
  IN  [err |-> out.err, entries |-> <<>>, dir |-> out.dir, added |-> 0,
       called |-> TRUE, uuid |-> undefined,
       rows |-> IF out.err = "ok"
                THEN <<audit("delete", dn, EmptyObj, 0, undefined, scimUserId)>>
                ELSE <<audit("delete", dn, EmptyObj, 1, out.err, scimUserId)>>]

\* the insert of row i completes
AuditInsertStored(i) ==
  /\ audits[i].st = "pending"
  /\ audits' = [audits EXCEPT ![i].st = "stored"]
  /\ UNCHANGED <<dir, nextUuid, inv, started, dirCalls>>

\* a failed insert of row i that is raised into the call that dispatched it
AuditInsertFailed_propagates(i) ==
  /\ audits[i].st = "pending"
  /\ Cardinality({j \in 1..Len(audits) : audits[j].st = "failed"}) < MaxAuditFailures
  /\ audits' = [audits EXCEPT ![i].st = "failed"]
  /\ inv' = [q \in Procs |->
               IF inv[q].lastAudit = i
               THEN [inv[q] EXCEPT !.result = RawError("Error: audit insert failed")]
               ELSE inv[q]]
  /\ UNCHANGED <<dir, nextUuid, started, dirCalls>>

\* the insert of row i fails: .catch logs the failure and drops it
AuditInsertFailed(i) ==
  /\ audits[i].st = "pending"
  /\ Cardinality({j \in 1..Len(audits) : audits[j].st = "failed"}) < MaxAuditFailures
  /\ audits' = [audits EXCEPT ![i].st = "failed"]
  /\ UNCHANGED <<dir, nextUuid, inv, started, dirCalls>>

-----------------------------------------------------------------------------
(* Backend orchestrator (LdapBackend) *)

\* the classifier matching on the text as raised, not lower-cased
mapLdapError_caseSensitive(err) ==
  LET msg == err
  IN  IF Includes(msg, "already exists") \/ Includes(msg, "entry already exists")
         \/ Includes(msg, "68")
      THEN ScimBackendError(409, err, "uniqueness")
      ELSE IF Includes(msg, "no such object") \/ Includes(msg, "32")
              \/ Includes(msg, "not found")
      THEN ScimBackendError(404, err, "noTarget")
      ELSE IF Includes(msg, "insufficient access") \/ Includes(msg, "50")
      THEN ScimBackendError(403, err, undefined)
      ELSE IF Includes(msg, "invalid") \/ Includes(msg, "constraint")
              \/ Includes(msg, "19")
      THEN ScimBackendError(400, err, "invalidValue")
      ELSE ScimBackendError(500, err, undefined)

mapLdapError(err) ==
  LET msg == ToLowerCase(err)
  IN  IF Includes(msg, "already exists") \/ Includes(msg, "entry already exists")
         \/ Includes(msg, "68")
      THEN ScimBackendError(409, err, "uniqueness")
      ELSE IF Includes(msg, "no such object") \/ Includes(msg, "32")
              \/ Includes(msg, "not found")
      THEN ScimBackendError(404, err, "noTarget")
      ELSE IF Includes(msg, "insufficient access") \/ Includes(msg, "50")
      THEN ScimBackendError(403, err, undefined)
      ELSE IF Includes(msg, "invalid") \/ Includes(msg, "constraint")
              \/ Includes(msg, "19")
      THEN ScimBackendError(400, err, "invalidValue")
      ELSE ScimBackendError(500, err, undefined)

\* a DN built from the local identifier as it is, without escapeDn
buildDn_unescaped(uid) == "uid=" \o uid \o "," \o BaseDn

buildDn(uid) == "uid=" \o escapeDn(uid) \o "," \o BaseDn

\* ground truth of the lookups, read off the directory itself
HoldsUid(d, uid) ==
  \E n \in 1..Len(d) :
    /\ "uid" \in DOMAIN d[n].attrs
    /\ \E k \in 1..Len(d[n].attrs.uid) : d[n].attrs.uid[k] = uid

HoldsUuid(d, id) ==
  \E n \in 1..Len(d) :
    /\ "entryUUID" \in DOMAIN d[n].attrs
    /\ \E k \in 1..Len(d[n].attrs.entryUUID) : d[n].attrs.entryUUID[k] = id

\* the record of one executor call in the invocation that made it
Call(op, target, arg, out) ==
  [op |-> op, target |-> target, arg |-> arg, err |-> out.err,
   issued |-> out.called, uuid |-> out.uuid]

Free(p) == inv[p].pc \in {"idle", "done"}

\* one step of an invocation: the executor call `out` takes effect and the
\* caller goes on to `next` (its fields that change)
Step(p, cur, out, call, next) ==
  /\ dir' = out.dir
  /\ nextUuid' = nextUuid + out.added
  /\ audits' = audits \o out.rows
  /\ dirCalls' = IF call.issued
                 THEN Append(dirCalls, [op |-> call.op, err |-> call.err])
                 ELSE dirCalls
  /\ inv' = [q \in Procs |->
               IF q = p
               THEN next @@ [calls |-> Append(cur.calls, call),
                             nAudits |-> cur.nAudits + Len(out.rows),
                             lastAudit |-> IF out.rows = <<>> THEN 0
                                           ELSE Len(audits) + 1]
                         @@ cur
               ELSE IF call.issued /\ ~Free(q)
               THEN [inv[q] EXCEPT !.mixed = TRUE]
               ELSE inv[q]]

\* a caller that is free starts an invocation
\* a new invocation runs on "p1" when that caller is free, on "p2" when
\* it runs concurrently with the one on "p1"
Begin(p) ==
  /\ Free(p)
  /\ p = "p2" => ~Free("p1")
  /\ started < MaxOps
  /\ started' = started + 1

Fresh(op, fields) == fields @@ [op |-> op, no |-> started + 1] @@ IdleInv

Finish(result) == [pc |-> "done", result |-> result]

\* a slice that takes the element at `end` too
Slice_inclusiveEnd(seq, start, end) ==
  LET len == Len(seq)
      from == IF start > len THEN len ELSE start
      to == IF end + 1 > len THEN len ELSE end + 1
  IN  IF to <= from THEN <<>> ELSE SubSeq(seq, from + 1, to)

\* array.slice(start, end) of JavaScript on a 1-based sequence
Slice(seq, start, end) ==
  LET len == Len(seq)
      from == IF start < 0 THEN (IF len + start < 0 THEN 0 ELSE len + start)
              ELSE (IF start > len THEN len ELSE start)
      to == IF end < 0 THEN (IF len + end < 0 THEN 0 ELSE len + end)
            ELSE (IF end > len THEN len ELSE end)
  IN  IF to <= from THEN <<>> ELSE SubSeq(seq, from + 1, to)

\* SCIM_ATTR_TO_LDAP[key]: a plain object, so the lookup also finds what
\* Object.prototype defines under a lower-case name
SCIM_ATTR_TO_LDAP(key) ==
  CASE key = "id" -> "entryUUID"
    [] key = "externalid" -> "employeeNumber"
    [] key = "username" -> "uid"
    [] key = "constructor" -> "function Object() { [native code] }"
    [] key = "__proto__" -> "[object Object]"
    [] OTHER -> undefined

\* userObjectClass.find((c) => c !== 'top') ?? 'inetOrgPerson'
StructuralClass(classes) ==
  IF \E n \in 1..Len(classes) : classes[n] # "top"
  THEN classes[CHOOSE n \in 1..Len(classes) :
                 /\ classes[n] # "top"
                 /\ \A k \in 1..(n - 1) : classes[k] = "top"]
  ELSE "inetOrgPerson"

ListFilter(opts) ==
  LET baseFilter == "(objectClass=" \o StructuralClass(UserObjectClass) \o ")"
  IN  IF "filter" \in DOMAIN opts /\ opts.filter.operator = "eq"
      THEN LET ldapAttr == SCIM_ATTR_TO_LDAP(ToLowerCase(opts.filter.attribute))
           IN  IF ldapAttr # undefined
               THEN "(&" \o baseFilter \o "(" \o ldapAttr \o "="
                    \o escapeLdap(opts.filter.value) \o "))"
               ELSE baseFilter
      ELSE baseFilter

\* listUsers(opts) by caller p, the directory call ending as `fault` says
listUsers_call(p, opts, fault) ==
    LET ldapFilter == ListFilter(opts)
        out == LdapClient_search(ldapFilter, NoAttributes, fault)
        users == [k \in 1..Len(out.entries) |-> ldapEntryToScimUser(out.entries[k])]
        page == Slice(users, opts.startIndex - 1, opts.startIndex - 1 + opts.count)
        cur == Fresh("list", [args |-> opts])
    IN  /\ Begin(p)
        /\ Step(p, cur, out, Call("search", ldapFilter, NoAttributes, out),
                IF out.err # "ok" THEN Finish(RawError(out.err))
                ELSE Finish(Returned([users |-> page, totalResults |-> Len(users)])))

listUsers(p) ==
  \E n \in 1..Len(ListInputs), fault \in Faults :
    listUsers_call(p, ListInputs[n], fault)

\* the id filter built from the id as it is, without escapeLdap
IdFilter_unescaped(id) == "(entryUUID=" \o id \o ")"

IdFilter(id) == "(entryUUID=" \o escapeLdap(id) \o ")"
UidFilter(uid) == "(uid=" \o escapeLdap(uid) \o ")"

\* getUser(id) by caller p
getUser_call(p, id, fault) ==
    LET out == LdapClient_search(IdFilter(id), NoAttributes, fault)
        cur == Fresh("get", [id |-> id, held |-> HoldsUuid(dir, id)])
    IN  /\ Begin(p)
        /\ Step(p, cur, out, Call("search", IdFilter(id), NoAttributes, out),
                IF out.err # "ok" THEN Finish(RawError(out.err))
                ELSE IF Len(out.entries) = 0 THEN Finish(NotFound(id))
                ELSE Finish(Returned(ldapEntryToScimUser(out.entries[1]))))

getUser(p) == \E id \in Ids, fault \in Faults : getUser_call(p, id, fault)

\* createUser that searches but goes on to the add whatever the search found
createUser_check_skipsPrecheck(p) ==
  \E n \in 1..Len(Users), fault \in Faults :
    LET user == Users[n]
        uid == SplitFirst(user.userName, "@")
        out == LdapClient_search(UidFilter(uid), NoAttributes, fault)
        cur == Fresh("create", [user |-> user, uid |-> uid,
                                held |-> HoldsUid(dir, uid)])
    IN  /\ Begin(p)
        /\ Step(p, cur, out, Call("search", UidFilter(uid), NoAttributes, out),
                IF out.err # "ok" THEN Finish(RawError(out.err))
                ELSE [pc |-> "create_add"])

\* createUser(user) by caller p up to the pre-check search and its outcome
createUser_call(p, user, fault) ==
    LET uid == SplitFirst(user.userName, "@")
        out == LdapClient_search(UidFilter(uid), NoAttributes, fault)
        cur == Fresh("create", [user |-> user, uid |-> uid,
                                held |-> HoldsUid(dir, uid)])
    IN  /\ Begin(p)
        /\ Step(p, cur, out, Call("search", UidFilter(uid), NoAttributes, out),
                IF out.err # "ok" THEN Finish(RawError(out.err))
                ELSE IF Len(out.entries) > 0
                THEN Finish(ScimBackendError(409,
                       "A user with userName '" \o user.userName
                       \o "' already exists.", "uniqueness"))
                ELSE [pc |-> "create_add"])

createUser_check(p) ==
  \E n \in 1..Len(Users), fault \in Faults : createUser_call(p, Users[n], fault)

\* the attribute bag createUser hands to add
CreateAttrs(user) ==
  Opt(Truthy(Get(user, "externalId")), "employeeNumber", Get(user, "externalId"))
  @@ ("objectClass" :> UserObjectClass)
  @@ scimToLdapAttrs(user)

\* createUser trying the add again when it fails
createUser_add_retries(p) ==
  \E fault \in Faults :
    LET cur == inv[p]
        dn == buildDn(cur.uid)
        attrs == CreateAttrs(cur.user)
        out == LdapClient_add(dn, attrs, Get(cur.user, "externalId"), fault)
    IN  /\ cur.pc = "create_add"
        /\ UNCHANGED started
        /\ Step(p, cur, out, Call("add", dn, attrs, out),
                IF out.err # "ok" /\ Len(cur.calls) >= 2
                THEN Finish(mapLdapError(out.err))
                ELSE IF out.err # "ok" THEN [pc |-> "create_add"]
                ELSE [pc |-> "create_readback"])

\* createUser raising the add's failure as it is, without mapLdapError
createUser_add_unmapped(p) ==
  \E fault \in Faults :
    LET cur == inv[p]
        dn == buildDn(cur.uid)
        attrs == CreateAttrs(cur.user)
        out == LdapClient_add(dn, attrs, Get(cur.user, "externalId"), fault)
    IN  /\ cur.pc = "create_add"
        /\ UNCHANGED started
        /\ Step(p, cur, out, Call("add", dn, attrs, out),
                IF out.err # "ok" THEN Finish(RawError(out.err))
                ELSE [pc |-> "create_readback"])

\* createUser from the add to its outcome
createUser_add(p) ==
  \E fault \in Faults :
    LET cur == inv[p]
        dn == buildDn(cur.uid)
        attrs == CreateAttrs(cur.user)
        out == LdapClient_add(dn, attrs, Get(cur.user, "externalId"), fault)
    IN  /\ cur.pc = "create_add"
        /\ UNCHANGED started
        /\ Step(p, cur, out, Call("add", dn, attrs, out),
                IF out.err # "ok" THEN Finish(mapLdapError(out.err))
                ELSE [pc |-> "create_readback"])

\* crypto.randomUUID()
RandomUuids == {"rnd-6f1c", "rnd-9a0e"}

\* createUser failing when the read-back finds nothing
createUser_readback_failsWhenMissing(p) ==
  \E fault \in Faults, rnd \in RandomUuids :
    LET cur == inv[p]
        out == LdapClient_search(UidFilter(cur.uid), NoAttributes, fault)
    IN  /\ cur.pc = "create_readback"
        /\ UNCHANGED started
        /\ Step(p, cur, out, Call("search", UidFilter(cur.uid), NoAttributes, out),
                IF out.err # "ok" THEN Finish(RawError(out.err))
                ELSE IF Len(out.entries) = 0
                THEN Finish(NotFound(cur.uid))
                ELSE Finish(Returned(ldapEntryToScimUser(out.entries[1]))))

\* createUser's read-back and return
createUser_readback(p) ==
  \E fault \in Faults, rnd \in RandomUuids :
    LET cur == inv[p]
        out == LdapClient_search(UidFilter(cur.uid), NoAttributes, fault)
    IN  /\ cur.pc = "create_readback"
        /\ UNCHANGED started
        /\ Step(p, cur, out, Call("search", UidFilter(cur.uid), NoAttributes, out),
                IF out.err # "ok" THEN Finish(RawError(out.err))
                ELSE IF Len(out.entries) = 0
                THEN Finish(Returned(("id" :> rnd) @@ cur.user))
                ELSE Finish(Returned(ldapEntryToScimUser(out.entries[1]))))

\* requireEntry(id) as the first step of replaceUser
replaceUser_locate(p) ==
  \E id \in Ids, n \in 1..Len(Users), fault \in Faults :
    LET out == LdapClient_search(IdFilter(id), NoAttributes, fault)
        cur == Fresh("replace", [id |-> id, user |-> Users[n],
                                 held |-> HoldsUuid(dir, id)])
    IN  /\ Begin(p)
        /\ Step(p, cur, out, Call("search", IdFilter(id), NoAttributes, out),
                IF out.err # "ok" THEN Finish(RawError(out.err))
                ELSE IF Len(out.entries) = 0 THEN Finish(NotFound(id))
                ELSE [pc |-> "replace_modify", entry |-> out.entries[1],
                      mods |-> scimToLdapModifications(Users[n])])

replaceUser_modify(p) ==
  \E fault \in Faults :
    LET cur == inv[p]
        out == LdapClient_modify(cur.entry.dn, cur.mods, cur.id, fault)
    IN  /\ cur.pc = "replace_modify"
        /\ UNCHANGED started
        /\ Step(p, cur, out, Call("modify", cur.entry.dn, cur.mods, out),
                IF out.err # "ok" THEN Finish(mapLdapError(out.err))
                ELSE [pc |-> "replace_reread"])

replaceUser_reread(p) ==
  \E fault \in Faults :
    LET cur == inv[p]
        out == LdapClient_search(IdFilter(cur.id), NoAttributes, fault)
    IN  /\ cur.pc = "replace_reread"
        /\ UNCHANGED started
        /\ Step(p, cur, out, Call("search", IdFilter(cur.id), NoAttributes, out),
                IF out.err # "ok" THEN Finish(RawError(out.err))
                ELSE IF Len(out.entries) = 0 THEN Finish(NotFound(cur.id))
                ELSE Finish(Returned(ldapEntryToScimUser(out.entries[1]))))

\* the field of a ScimUser that a patch path names, set to v
SetPath(partial, path, v) ==
  IF path \in {"name.givenName", "name.familyName"}
  THEN LET part == IF path = "name.givenName" THEN "givenName" ELSE "familyName"
           name == IF "name" \in DOMAIN partial THEN partial.name ELSE EmptyObj
       IN  ("name" :> ((part :> v) @@ name)) @@ partial
  ELSE (path :> v) @@ partial

\* applyPatchOps(current, operations).updated of scim-fastify-core: the
\* fields the operations touched, a removed field present and null
RECURSIVE PatchFold(_, _)
PatchFold(partial, ops) ==
  IF ops = <<>> THEN partial
  ELSE PatchFold(SetPath(partial, Head(ops).path,
                         IF Head(ops).op = "remove" THEN null ELSE Head(ops).value),
                 Tail(ops))

applyPatchOps(current, operations) == [updated |-> PatchFold(EmptyObj, operations)]

\* patchUser deriving the modifications from the whole patched view of the
\* entry instead of the fields the operations touched
patchUser_locate_fullView(p) ==
  \E id \in Ids, n \in 1..Len(Patches), fault \in Faults :
    LET out == LdapClient_search(IdFilter(id), NoAttributes, fault)
        cur == Fresh("patch", [id |-> id, patch |-> Patches[n],
                               held |-> HoldsUuid(dir, id)])
        current == ldapEntryToScimUser(out.entries[1])
        partial == applyPatchOps(current, Patches[n]).updated
    IN  /\ Begin(p)
        /\ Step(p, cur, out, Call("search", IdFilter(id), NoAttributes, out),
                IF out.err # "ok" THEN Finish(RawError(out.err))
                ELSE IF Len(out.entries) = 0 THEN Finish(NotFound(id))
                ELSE [pc |-> "patch_modify", entry |-> out.entries[1],
                      mods |-> scimToLdapModifications(partial @@ current)])

\* requireEntry(id), the current view and the patch applied to it
patchUser_locate(p) ==
  \E id \in Ids, n \in 1..Len(Patches), fault \in Faults :
    LET out == LdapClient_search(IdFilter(id), NoAttributes, fault)
        cur == Fresh("patch", [id |-> id, patch |-> Patches[n],
                               held |-> HoldsUuid(dir, id)])
        current == ldapEntryToScimUser(out.entries[1])
        partial == applyPatchOps(current, Patches[n]).updated
    IN  /\ Begin(p)
        /\ Step(p, cur, out, Call("search", IdFilter(id), NoAttributes, out),
                IF out.err # "ok" THEN Finish(RawError(out.err))
                ELSE IF Len(out.entries) = 0 THEN Finish(NotFound(id))
                ELSE [pc |-> "patch_modify", entry |-> out.entries[1],
                      mods |-> scimToLdapModifications(partial)])

patchUser_modify(p) ==
  \E fault \in Faults :
    LET cur == inv[p]
        out == LdapClient_modify(cur.entry.dn, cur.mods, cur.id, fault)
    IN  /\ cur.pc = "patch_modify"
        /\ UNCHANGED started
        /\ Step(p, cur, out, Call("modify", cur.entry.dn, cur.mods, out),
                IF out.err # "ok" THEN Finish(mapLdapError(out.err))
                ELSE [pc |-> "patch_reread"])

patchUser_reread(p) ==
  \E fault \in Faults :
    LET cur == inv[p]
        out == LdapClient_search(IdFilter(cur.id), NoAttributes, fault)
    IN  /\ cur.pc = "patch_reread"
        /\ UNCHANGED started
        /\ Step(p, cur, out, Call("search", IdFilter(cur.id), NoAttributes, out),
                IF out.err # "ok" THEN Finish(RawError(out.err))
                ELSE IF Len(out.entries) = 0 THEN Finish(NotFound(cur.id))
                ELSE Finish(Returned(ldapEntryToScimUser(out.entries[1]))))

deleteUser_locate(p) ==
  \E id \in Ids, fault \in Faults :
    LET out == LdapClient_search(IdFilter(id), NoAttributes, fault)
        cur == Fresh("delete", [id |-> id, held |-> HoldsUuid(dir, id)])
    IN  /\ Begin(p)
        /\ Step(p, cur, out, Call("search", IdFilter(id), NoAttributes, out),
                IF out.err # "ok" THEN Finish(RawError(out.err))
                ELSE IF Len(out.entries) = 0 THEN Finish(NotFound(id))
                ELSE [pc |-> "delete_delete", entry |-> out.entries[1]])

deleteUser_delete(p) ==
  \E fault \in Faults :
    LET cur == inv[p]
        out == LdapClient_delete(cur.entry.dn, cur.id, fault)
    IN  /\ cur.pc = "delete_delete"
        /\ UNCHANGED started
        /\ Step(p, cur, out, Call("delete", cur.entry.dn, EmptyObj, out),
                IF out.err # "ok" THEN Finish(mapLdapError(out.err))
                ELSE Finish(Returned(undefined)))

-----------------------------------------------------------------------------
(* Another caller of the LdapClient using its methods directly *)

\* what an executor method gives its caller: its value, or the error re-raised
Outcome(out) ==
  IF out.err # "ok" THEN Finish(RawError(out.err))
  ELSE Finish(Returned(out.entries))

direct_search(p) ==
  \E n \in 1..Len(DirectSearches), fault \in Faults :
    LET a == DirectSearches[n]
        out == LdapClient_search(a.filter, a.attributes, fault)
    IN  /\ Begin(p)
        /\ Step(p, Fresh("x_search", [args |-> a]), out,
                Call("search", a.filter, a.attributes, out), Outcome(out))

direct_add(p) ==
  \E n \in 1..Len(DirectAdds), fault \in Faults :
    LET a == DirectAdds[n]
        out == LdapClient_add(a.dn, a.attrs, a.scimUserId, fault)
    IN  /\ Begin(p)
        /\ Step(p, Fresh("x_add", [args |-> a]), out,
                Call("add", a.dn, a.attrs, out), Outcome(out))

direct_modify(p) ==
  \E n \in 1..Len(DirectModifies), fault \in Faults :
    LET a == DirectModifies[n]
        out == LdapClient_modify(a.dn, a.mods, a.scimUserId, fault)
    IN  /\ Begin(p)
        /\ Step(p, Fresh("x_modify", [args |-> a]), out,
                Call("modify", a.dn, a.mods, out), Outcome(out))

direct_delete(p) ==
  \E n \in 1..Len(DirectDeletes), fault \in Faults :
    LET a == DirectDeletes[n]
        out == LdapClient_delete(a.dn, a.scimUserId, fault)
    IN  /\ Begin(p)
        /\ Step(p, Fresh("x_delete", [args |-> a]), out,
                Call("delete", a.dn, EmptyObj, out), Outcome(out))

-----------------------------------------------------------------------------

\* failure texts for the classifier: every concatenation of two phrases
Phrases ==
  <<"", "Already Exists", "68", "No Such Object", "32", "NOT FOUND",
    "Insufficient Access", "50", "Invalid", "constraint", "19", "timeout",
    "6", "8", "alreadyexists">>

\* mapLdapError applied to a failure text
Classify(p) ==
  \E a \in 1..Len(Phrases), b \in 1..Len(Phrases) :
    LET text == Phrases[a] \o Phrases[b]
    IN  /\ Begin(p)
        /\ inv' = [inv EXCEPT ![p] =
                     Finish(mapLdapError(text))
                     @@ Fresh("classify", [args |-> [err |-> text]])]
        /\ UNCHANGED <<dir, nextUuid, audits, dirCalls>>

\* the backend orchestrator serving concurrent requests
Next ==
  \/ \E p \in Procs : listUsers(p)
  \/ \E p \in Procs : getUser(p)
  \/ \E p \in Procs : createUser_check(p)
  \/ \E p \in Procs : createUser_add(p)
  \/ \E p \in Procs : createUser_readback(p)
  \/ \E p \in Procs : replaceUser_locate(p)
  \/ \E p \in Procs : replaceUser_modify(p)
  \/ \E p \in Procs : replaceUser_reread(p)
  \/ \E p \in Procs : patchUser_locate(p)
  \/ \E p \in Procs : patchUser_modify(p)
  \/ \E p \in Procs : patchUser_reread(p)
  \/ \E p \in Procs : deleteUser_locate(p)
  \/ \E p \in Procs : deleteUser_delete(p)

Spec == Init /\ [][Next]_vars

\* the failure classifier on its own and inside createUser
NextMap ==
  \/ \E p \in Procs : Classify(p)
  \/ \E p \in Procs : createUser_check(p)
  \/ \E p \in Procs : createUser_add(p)
  \/ \E p \in Procs : createUser_readback(p)

MapSpec == Init /\ [][NextMap]_vars

\* the executor under its direct callers, with the audit inserts settling
NextExec ==
  \/ \E p \in Procs : direct_search(p)
  \/ \E p \in Procs : direct_add(p)
  \/ \E p \in Procs : direct_modify(p)
  \/ \E p \in Procs : direct_delete(p)
  \/ \E i \in 1..Len(audits) : AuditInsertStored(i)
  \/ \E i \in 1..Len(audits) : AuditInsertFailed(i)

ExecSpec == Init /\ [][NextExec]_vars

-----------------------------------------------------------------------------
(* The read path under hostile input: values that carry the characters a   *)
(* search filter gives a meaning to, on a directory whose entries hold     *)
(* such values literally.                                                  *)

HostileStrings ==
  <<"alice", "*", "a*", "*)(uid=*", "\\2a", "a\\", "a" \o NUL \o "b", "(">>

StarEntry ==
  [dn |-> "uid=a\\2a,dc=example,dc=com",
   attrs |-> [objectClass |-> UserObjectClass, uid |-> <<"a*">>,
              cn |-> <<"a*">>, sn |-> <<"a*">>, employeeNumber |-> <<"\\2a">>,
              entryUUID |-> <<"*">>]]

SlashEntry ==
  [dn |-> "uid=a\\00b,dc=example,dc=com",
   attrs |-> [objectClass |-> UserObjectClass, uid |-> <<"a" \o NUL \o "b">>,
              cn |-> <<"(">>, sn |-> <<"(">>, employeeNumber |-> <<"(">>,
              entryUUID |-> <<"a\\">>]]

HostileDir == <<AliceEntry, StarEntry, SlashEntry>>

QueryInit ==
  /\ dir = HostileDir
  /\ nextUuid = Len(HostileDir)
  /\ audits = <<>>
  /\ inv = [p \in Procs |-> IdleInv]
  /\ started = 0
  /\ dirCalls = <<>>

\* the attribute names and operators a list filter can carry
FilterAttributes ==
  <<"id", "externalId", "userName", "USERNAME", "title", "constructor",
    "__proto__">>

\* operators other than eq
OtherOperators == <<"co", "sw">>

MaxStartIndex == 4
MaxCount == 3

getUser_hostile(p) ==
  \E n \in 1..Len(HostileStrings) : getUser_call(p, HostileStrings[n], "ok")

\* users to create whose userName carries one of the hostile strings
HostileUsers ==
  [n \in 1..Len(HostileStrings) |->
     [userName |-> HostileStrings[n] \o "@example.com"]]

createUser_hostile(p) ==
  \E n \in 1..Len(HostileUsers) : createUser_call(p, HostileUsers[n], "ok")

\* list requests filtered by eq: every attribute name with every hostile value
FilteredInputs ==
  [k \in 1..(Len(FilterAttributes) * Len(HostileStrings)) |->
     [filter |->
        [attribute |-> FilterAttributes[((k - 1) \div Len(HostileStrings)) + 1],
         operator |-> "eq",
         value |-> HostileStrings[((k - 1) % Len(HostileStrings)) + 1]],
      startIndex |-> 1, count |-> MaxCount]]

listUsers_filtered(p) ==
  \E k \in 1..Len(FilteredInputs) : listUsers_call(p, FilteredInputs[k], "ok")

\* list requests filtered by another operator on a recognized attribute
OtherOperatorInputs ==
  [k \in 1..(3 * Len(OtherOperators)) |->
     [filter |->
        [attribute |-> FilterAttributes[((k - 1) \div Len(OtherOperators)) + 1],
         operator |-> OtherOperators[((k - 1) % Len(OtherOperators)) + 1],
         value |-> "alice"],
      startIndex |-> 1, count |-> MaxCount]]

listUsers_otherOperator(p) ==
  \E k \in 1..Len(OtherOperatorInputs) :
    listUsers_call(p, OtherOperatorInputs[k], "ok")

\* unfiltered list requests: every start index with every count
PagedInputs ==
  [k \in 1..(MaxStartIndex * (MaxCount + 1)) |->
     [startIndex |-> ((k - 1) \div (MaxCount + 1)) + 1,
      count |-> (k - 1) % (MaxCount + 1)]]

listUsers_paged(p) ==
  \E k \in 1..Len(PagedInputs) : listUsers_call(p, PagedInputs[k], "ok")

NextQuery ==
  \/ \E p \in Procs : getUser_hostile(p)
  \/ \E p \in Procs : createUser_hostile(p)
  \/ \E p \in Procs : createUser_add(p)
  \/ \E p \in Procs : createUser_readback(p)
  \/ \E p \in Procs : listUsers_filtered(p)
  \/ \E p \in Procs : listUsers_otherOperator(p)
  \/ \E p \in Procs : listUsers_paged(p)

QuerySpec == QueryInit /\ [][NextQuery]_vars

-----------------------------------------------------------------------------
(* The mapper and the DN escaper applied on their own *)

\* user with its active field absent (k = 1), true (k = 2) or false (k = 3)
WithActive(user, k) ==
  LET rest == [x \in DOMAIN user \ {"active"} |-> user[x]]
  IN  IF k = 1 THEN rest ELSE ("active" :> (k = 2)) @@ rest

MapperUsers ==
  [n \in 1..(3 * Len(Users)) |->
     WithActive(Users[((n - 1) \div 3) + 1], ((n - 1) % 3) + 1)]

DaveEntry ==
  [dn |-> "uid=dave,dc=example,dc=com",
   attrs |-> [objectClass |-> UserObjectClass, uid |-> <<"dave">>,
              cn |-> <<"David D">>, sn |-> <<"D">>, givenName |-> <<"David">>,
              displayName |-> <<"Dave">>, employeeNumber |-> <<"e9">>,
              mail |-> <<"dave@example.com">>, entryUUID |-> <<Uuid(3)>>]]

MapperEntries == <<AliceEntry, CarolEntry, DaveEntry, StarEntry, SlashEntry>>

\* partial updates handed to scimToLdapModifications
Partials ==
  <<EmptyObj,
    [userName |-> "bob@example.com"],
    [userName |-> "bob@example.com", displayName |-> "Bob B"],
    [userName |-> "bob@example.com", displayName |-> null],
    [userName |-> "robert", name |-> [familyName |-> "B"]],
    [displayName |-> "Bob B"],
    [displayName |-> null],
    [active |-> FALSE],
    [externalId |-> null, emails |-> <<[value |-> "b@work", primary |-> FALSE]>>]>>

\* values for a DN's uid
DnValues ==
  <<"", "alice", " ", "  ", " a", "a ", "a b", "#a", "a#", "\\", "a\\ ", "\\ ",
    "a,b", "a+b;c", "<x>", "\"q\"", "a\\,b", "# ">>

\* caller p calls one of the functions with the arguments it has chosen
Invoke(p, op, args) ==
  /\ Begin(p)
  /\ inv' = [inv EXCEPT ![p] = [pc |-> "apply"] @@ Fresh(op, [args |-> args])]
  /\ UNCHANGED <<dir, nextUuid, audits, dirCalls>>

\* the calls made: each function with each of its inputs
CallMapper(p) ==
  \/ \E n \in 1..Len(MapperUsers) :
       Invoke(p, "roundtrip", [user |-> MapperUsers[n]])
  \/ \E n \in 1..Len(MapperEntries) :
       Invoke(p, "noop_update", [stored |-> MapperEntries[n]])
  \/ \E n \in 1..Len(Partials) :
       Invoke(p, "intent", [partial |-> Partials[n]])
  \/ \E n \in 1..Len(DnValues) :
       Invoke(p, "escape_dn", [value |-> DnValues[n]])

\* the function called by p applied: its arguments and its value
Apply(p, op, args, value) ==
  /\ inv[p].pc = "apply"
  /\ inv[p].op = op
  /\ inv' = [inv EXCEPT ![p] =
               Finish(Returned(value)) @@ [args |-> args] @@ inv[p]]
  /\ UNCHANGED <<dir, nextUuid, audits, started, dirCalls>>

\* the entry an add of attrs leaves in the directory
EntryOf(dn, attrs, uuid) ==
  [dn |-> dn,
   attrs |-> ("entryUUID" :> <<uuid>>)
             @@ [a \in DOMAIN attrs |-> AsList(a, attrs[a])]]

\* ldapEntryToScimUser(scimToLdapAttrs(user) with an entryUUID)
RoundTripUser(p) ==
  LET user == inv[p].args.user
      entry == EntryOf(buildDn(SplitFirst(user.userName, "@")),
                       scimToLdapAttrs(user), Uuid(1))
  IN  Apply(p, "roundtrip", [user |-> user, entry |-> entry],
            ldapEntryToScimUser(entry))

\* scimToLdapModifications(ldapEntryToScimUser(entry))
RoundTripEntry(p) ==
  LET entry == Project(inv[p].args.stored, <<"*", "entryUUID">>)
      mods == scimToLdapModifications(ldapEntryToScimUser(entry))
  IN  Apply(p, "noop_update",
            [entry |-> entry,
             after |-> ApplyChanges(entry.attrs,
                                    [k \in 1..Len(mods) |-> ToChange(mods[k])])],
            mods)

\* scimToLdapModifications(partial)
DeriveIntent(p) ==
  LET partial == inv[p].args.partial
  IN  Apply(p, "intent", [partial |-> partial],
            scimToLdapModifications(partial))

\* escapeDn(value) and the DN buildDn makes of it
EscapeDnValue(p) ==
  LET value == inv[p].args.value
  IN  Apply(p, "escape_dn", [value |-> value, dn |-> buildDn(value)],
            escapeDn(value))

NextMapper ==
  \/ \E p \in Procs : CallMapper(p)
  \/ \E p \in Procs : RoundTripUser(p)
  \/ \E p \in Procs : RoundTripEntry(p)
  \/ \E p \in Procs : DeriveIntent(p)
  \/ \E p \in Procs : EscapeDnValue(p)

MapperSpec == Init /\ [][NextMapper]_vars

-----------------------------------------------------------------------------
(* Concurrent creates of users that share a local identifier *)

\* users to create: two pairs whose userNames differ and derive the same uid
RaceUsers ==
  <<[userName |-> "bob@example.com"],
    [userName |-> "bob@corp.example", displayName |-> "Bob B",
     externalId |-> "e7"],
    [userName |-> "alice"],
    [userName |-> "alice@example.com", active |-> FALSE],
    [userName |-> "erin@example.com"]>>

createUser_race(p) ==
  \E n \in 1..Len(RaceUsers), fault \in Faults :
    createUser_call(p, RaceUsers[n], fault)

NextRace ==
  \/ \E p \in Procs : createUser_race(p)
  \/ \E p \in Procs : createUser_add(p)
  \/ \E p \in Procs : createUser_readback(p)

RaceSpec == Init /\ [][NextRace]_vars

-----------------------------------------------------------------------------
(* Properties *)

Done(p) == inv[p].pc = "done"

IsUniqueness(r) ==
  r.kind = "ScimBackendError" /\ r.status = 409 /\ r.scimType = "uniqueness"

IsNotFound(r) ==
  r.kind = "ScimBackendError" /\ r.status = 404 /\ r.scimType = "noTarget"

CallOps(i) == [k \in 1..Len(i.calls) |-> i.calls[k].op]

\* C1: a create whose pre-check search runs on a directory that holds an
\* entry with uid = the local identifier (userName before the first '@')
\* ends at once: its only directory call is that search, no add is ever
\* issued, and when the search answers the result is the uniqueness error
\* (409, 'uniqueness').
C1_DuplicateCreateFailsBeforeAdd ==
  \A p \in Procs :
    (inv[p].op = "create" /\ inv[p].held) =>
      /\ Done(p)
      /\ CallOps(inv[p]) = <<"search">>
      /\ inv[p].calls[1].target = UidFilter(SplitFirst(inv[p].user.userName, "@"))
      /\ inv[p].result.kind # "ok"
      /\ inv[p].calls[1].err = "ok" => IsUniqueness(inv[p].result)

C1_Witness ==
  \E p \in Procs :
    /\ inv[p].op = "create"
    /\ inv[p].held
    /\ inv[p].user.userName = "alice@example.com"
    /\ IsUniqueness(inv[p].result)

\* C2: a create on a directory with no entry for the local identifier, whose
\* add succeeds and which no other caller's directory call interleaves,
\* issues exactly search, add, search; the add targets
\* uid=<escaped local identifier>,<baseDn> and carries uid, cn, sn (the
\* local identifier when displayName / familyName are absent) and the
\* configured object classes; when the read-back answers, the user returned
\* has the entryUUID the directory assigned as id and is active unless the
\* submitted user had active = false.
C2_CreateAddsAndReadsBack ==
  \A p \in Procs :
    LET i == inv[p]
        uid == SplitFirst(i.user.userName, "@")
    IN  (i.op = "create" /\ Done(p) /\ ~i.held /\ ~i.mixed
         /\ Len(i.calls) >= 2 /\ i.calls[2].err = "ok") =>
          /\ CallOps(i) = <<"search", "add", "search">>
          /\ i.calls[1].target = UidFilter(uid)
          /\ i.calls[3].target = UidFilter(uid)
          /\ i.calls[2].target = "uid=" \o escapeDn(uid) \o "," \o BaseDn
          /\ i.calls[2].arg.uid = uid
          /\ i.calls[2].arg.cn =
               (IF "displayName" \in DOMAIN i.user THEN i.user.displayName ELSE uid)
          /\ i.calls[2].arg.sn =
               (IF "name" \in DOMAIN i.user /\ "familyName" \in DOMAIN i.user.name
                THEN i.user.name.familyName ELSE uid)
          /\ i.calls[2].arg.objectClass = UserObjectClass
          /\ i.calls[3].err = "ok" =>
               /\ i.result.kind = "ok"
               /\ i.result.value.id = i.calls[2].uuid
               /\ i.result.value.active =
                    ~("active" \in DOMAIN i.user /\ i.user.active = FALSE)

C2_Witness ==
  \E p \in Procs :
    /\ inv[p].op = "create"
    /\ Done(p)
    /\ ~inv[p].mixed
    /\ inv[p].user.userName = "alice@example.com"
    /\ Len(inv[p].calls) = 3
    /\ inv[p].calls[2].arg = [uid |-> "alice", cn |-> "alice", sn |-> "alice",
                              objectClass |-> UserObjectClass]
    /\ inv[p].result.kind = "ok"
    /\ inv[p].result.value.id = Uuid(1)
    /\ inv[p].result.value.active

\* C3: get, replace, patch and delete on an id that no entry of the
\* directory has as entryUUID when the lookup runs: exactly one search, no
\* add / modify / delete, exactly one audit row, never a success value, and
\* when the search answers the result is the not-found error (404,
\* 'noTarget').
C3_MissingIdIsNotFound ==
  \A p \in Procs :
    (inv[p].op \in {"get", "replace", "patch", "delete"} /\ ~inv[p].held) =>
      /\ Done(p)
      /\ CallOps(inv[p]) = <<"search">>
      /\ inv[p].nAudits = 1
      /\ audits[inv[p].lastAudit].operation = "search"
      /\ inv[p].result.kind # "ok"
      /\ inv[p].calls[1].err = "ok" => IsNotFound(inv[p].result)

C3_Witness ==
  \E p \in Procs :
    /\ inv[p].op = "get"
    /\ inv[p].id = "nonexistent-uuid"
    /\ Len(dir) > 0
    /\ IsNotFound(inv[p].result)
    /\ inv[p].nAudits = 1

\* C4: every failure of a backend operation reaches the caller as a typed
\* backend error in one of the five categories (404, 409, 403, 400, 500),
\* never as the directory client's own error.
C4_EveryFailureIsTyped ==
  \A p \in Procs :
    (Done(p) /\ inv[p].result.kind # "ok") =>
      /\ inv[p].result.kind = "ScimBackendError"
      /\ inv[p].result.status \in {404, 409, 403, 400, 500}

Mentions(text, words) == \E w \in words : Includes(ToLowerCase(text), w)

IsUniquenessText(t) == Mentions(t, {"already exists", "68"})
IsNotFoundText(t) == Mentions(t, {"no such object", "32", "not found"})
IsForbiddenText(t) == Mentions(t, {"insufficient access", "50"})
IsInvalidText(t) == Mentions(t, {"invalid", "constraint", "19"})

ClassifiedInOrder(t, r) ==
  /\ r.kind = "ScimBackendError"
  /\ r.message = t
  /\ r.status \in {409, 404, 403, 400, 500}
  /\ r.status = 409 <=> IsUniquenessText(t)
  /\ r.status = 404 <=> (~IsUniquenessText(t) /\ IsNotFoundText(t))
  /\ r.status = 403 <=>
       (~IsUniquenessText(t) /\ ~IsNotFoundText(t) /\ IsForbiddenText(t))
  /\ r.status = 400 <=>
       (~IsUniquenessText(t) /\ ~IsNotFoundText(t) /\ ~IsForbiddenText(t)
        /\ IsInvalidText(t))
  /\ r.scimType = (CASE r.status = 409 -> "uniqueness"
                     [] r.status = 404 -> "noTarget"
                     [] r.status = 400 -> "invalidValue"
                     [] OTHER -> undefined)

\* C5: the classifier decides on the lower-cased failure text in a fixed
\* priority order: 'already exists' or 68 is uniqueness (409); else 'no such
\* object', 32 or 'not found' is not-found (404); else 'insufficient access'
\* or 50 is forbidden (403); else 'invalid', 'constraint' or 19 is
\* invalid-value (400); else internal (500).  It always answers, keeps the
\* text as the message, and a failed add whose text contains 'already
\* exists' leaves createUser as a uniqueness conflict.
C5_ClassifierPriorityOrder ==
  \A p \in Procs :
    /\ (inv[p].op = "classify" /\ Done(p)) =>
         ClassifiedInOrder(inv[p].args.err, inv[p].result)
    /\ (inv[p].op = "create" /\ Done(p) /\ Len(inv[p].calls) = 2) =>
         /\ ClassifiedInOrder(inv[p].calls[2].err, inv[p].result)
         /\ Includes(ToLowerCase(inv[p].calls[2].err), "already exists") =>
              IsUniqueness(inv[p].result)

C5_Witness ==
  \E p \in Procs :
    /\ inv[p].op = "classify"
    /\ Done(p)
    /\ inv[p].args.err = "No Such ObjectAlready Exists"
    /\ IsInvalidText("Invalid68") /\ IsUniquenessText("Invalid68")
    /\ IsUniqueness(inv[p].result)

ExecutorOps == {"x_search", "x_add", "x_modify", "x_delete"}

\* C6: the audit rows dispatched are, one for one and in order, the calls
\* the directory client has completed (search, add, delete and modify with a
\* non-empty intent): result code 0 and no error text when the call
\* succeeded, result code 1 and the error text when it failed; and the
\* caller of a failed call gets that directory error re-raised.
C6_OneAuditRowPerCall ==
  /\ Len(audits) = Len(dirCalls)
  /\ \A k \in 1..Len(dirCalls) :
       /\ audits[k].operation = dirCalls[k].op
       /\ dirCalls[k].err = "ok" =>
            (audits[k].result_code = 0 /\ audits[k].error_message = null)
       /\ dirCalls[k].err # "ok" =>
            (audits[k].result_code = 1 /\ audits[k].error_message = dirCalls[k].err)
  /\ \A p \in Procs :
       (inv[p].op \in ExecutorOps /\ Done(p)) =>
         /\ inv[p].nAudits = (IF inv[p].calls[1].issued THEN 1 ELSE 0)
         /\ inv[p].calls[1].err # "ok" =>
              /\ inv[p].result.kind = "raw"
              /\ inv[p].result.message = inv[p].calls[1].err
              /\ audits[inv[p].lastAudit].error_message = inv[p].calls[1].err

C6_Witness ==
  /\ Len(audits) = 2
  /\ audits[1].result_code = 0
  /\ audits[2].result_code = 1
  /\ audits[2].operation = "modify"
  /\ \E p \in Procs : inv[p].op = "x_modify" /\ inv[p].result.kind = "raw"

IsSensitive(a) == ToLowerCase(a) \in SENSITIVE_ATTRS

\* C7: in every audit row of an add or a modify, on success and on failure,
\* a password-class attribute (userPassword, password, unicodePwd, in any
\* case) is recorded as the redaction marker, never as the value submitted.
C7_AuditNeverHoldsPassword ==
  \A p \in Procs :
    (inv[p].op \in {"x_add", "x_modify"} /\ Done(p) /\ inv[p].lastAudit > 0) =>
      LET row == audits[inv[p].lastAudit]
          call == inv[p].calls[1]
      IN  /\ call.op = "add" =>
               \A a \in DOMAIN call.arg :
                 IsSensitive(a) => row.attributes_json[a] = REDACTED
          /\ call.op = "modify" =>
               \A n \in 1..Len(call.arg) :
                 IsSensitive(call.arg[n].attribute) =>
                   row.attributes_json[call.arg[n].attribute] # call.arg[n].value

\* the add half of C7, which the code keeps
C7_AddRowsAreRedacted ==
  \A p \in Procs :
    (inv[p].op = "x_add" /\ Done(p)) =>
      \A a \in DOMAIN inv[p].calls[1].arg :
        IsSensitive(a) => audits[inv[p].lastAudit].attributes_json[a] = REDACTED

C8_ResultFollowsDirectory ==
  \A p \in Procs :
    (inv[p].op \in ExecutorOps /\ Done(p)) =>
      /\ inv[p].result.kind = (IF inv[p].calls[1].err = "ok" THEN "ok" ELSE "raw")
      /\ inv[p].result.message =
           (IF inv[p].calls[1].err = "ok" THEN undefined ELSE inv[p].calls[1].err)

C8_ReturnsBeforeInsert ==
  \A p \in Procs :
    (inv'[p].no # inv[p].no /\ inv'[p].lastAudit > 0) =>
      /\ inv'[p].pc = "done"
      /\ audits'[inv'[p].lastAudit].st = "pending"

C8_SettlingLeavesResults ==
  (Len(audits') = Len(audits) /\ audits' # audits) =>
    \A p \in Procs :
      /\ inv'[p].pc = inv[p].pc
      /\ inv'[p].result.kind = inv[p].result.kind
      /\ inv'[p].result.message = inv[p].result.message

\* C8: what an executor call gives its caller is decided by the directory
\* call alone: it is delivered while the audit insert is still pending, and
\* the insert completing or failing afterwards changes no caller's result.
C8_AuditOutcomeNeverReachesCaller ==
  /\ []C8_ResultFollowsDirectory
  /\ [][C8_ReturnsBeforeInsert]_vars
  /\ [][C8_SettlingLeavesResults]_vars

C8_Witness ==
  \E p \in Procs :
    /\ inv[p].op = "x_add"
    /\ Done(p)
    /\ inv[p].result.kind = "ok"
    /\ audits[inv[p].lastAudit].st = "failed"

C9_EmptyModifyStep ==
  \A p \in Procs :
    (inv'[p].no # inv[p].no /\ inv'[p].op = "x_modify"
     /\ Len(inv'[p].args.mods) = 0) =>
      /\ dir' = dir
      /\ audits' = audits
      /\ dirCalls' = dirCalls
      /\ inv'[p].pc = "done"
      /\ inv'[p].result.kind = "ok"

\* C9: modify with an empty intent returns at once: no directory call, no
\* audit row, the directory and the audit rows as they were; and the intent
\* derived from an empty partial update is empty.
C9_EmptyModifyIsNoOp ==
  /\ [](scimToLdapModifications(EmptyObj) = <<>>)
  /\ [][C9_EmptyModifyStep]_vars

C9_Witness ==
  \E p \in Procs :
    /\ inv[p].op = "x_modify"
    /\ Done(p)
    /\ inv[p].args.mods = <<>>
    /\ inv[p].no = 2
    /\ Len(audits) = 1
    /\ Len(dir) > 0

\* the directory attributes that the mapping derives from one SCIM field
FieldAttrs(path) ==
  CASE path = "active" -> {"pwdAccountLockedTime"}
    [] path = "displayName" -> {"displayName", "cn"}
    [] path = "userName" -> {"uid"}
    [] path = "name.givenName" -> {"givenName"}
    [] path = "name.familyName" -> {"sn"}
    [] path = "externalId" -> {"employeeNumber"}
    [] path = "emails" -> {"mail"}
    [] OTHER -> {}

TouchedAttrs(ops) == UNION {FieldAttrs(ops[k].path) : k \in 1..Len(ops)}

ModAttrs(mods) == {mods[k].attribute : k \in 1..Len(mods)}

\* the operation list holds the single operation "replace active with false"
IsDeactivate(ops) ==
  /\ Len(ops) = 1
  /\ ops[1].op = "replace"
  /\ ops[1].path = "active"
  /\ ops[1].value = FALSE

C10_IntentOnlyTouched ==
  \A p \in Procs :
    LET i == inv[p] IN
    (i.op = "patch" /\ i.pc \in {"patch_modify", "patch_reread", "done"}
     /\ i.held /\ i.calls[1].err = "ok") =>
      /\ ModAttrs(i.mods) \subseteq TouchedAttrs(i.patch)
      /\ IsDeactivate(i.patch) =>
           i.mods = <<[attribute |-> "pwdAccountLockedTime",
                       value |-> <<LOCKED_TIME>>]>>
      /\ i.pc = "patch_modify" => CallOps(i) = <<"search">>
      /\ i.pc = "patch_reread" => CallOps(i) = <<"search", "modify">>
      /\ i.pc = "done" =>
           \/ CallOps(i) = <<"search", "modify">>
           \/ CallOps(i) = <<"search", "modify", "search">>
      /\ Len(i.calls) >= 2 =>
           (i.calls[2].arg = i.mods /\ i.calls[2].target = i.entry.dn)

C10_ModifyFrame ==
  \A p \in Procs :
    (inv[p].pc = "patch_modify" /\ inv'[p].pc # "patch_modify") =>
      /\ Len(dir') = Len(dir)
      /\ \A n \in 1..Len(dir) :
           /\ dir'[n].dn = dir[n].dn
           /\ dir[n].dn # inv[p].entry.dn => dir'[n] = dir[n]
           /\ DOMAIN dir'[n].attrs \subseteq
                DOMAIN dir[n].attrs \cup TouchedAttrs(inv[p].patch)
           /\ \A a \in DOMAIN dir[n].attrs \ TouchedAttrs(inv[p].patch) :
                a \in DOMAIN dir'[n].attrs /\ dir'[n].attrs[a] = dir[n].attrs[a]
           /\ (dir[n].dn = inv[p].entry.dn /\ IsDeactivate(inv[p].patch)
               /\ inv'[p].pc = "patch_reread") =>
                dir'[n].attrs =
                  ("pwdAccountLockedTime" :> <<LOCKED_TIME>>) @@ dir[n].attrs

\* C10: a patch on an existing entry calls modify exactly once, with an
\* intent that names only attributes of the fields the operations touched
\* (for a patch that only replaces active with false: the lock attribute set
\* to the sentinel, nothing else); the modify leaves every other attribute
\* of the entry, and every other entry, as it was.
C10_PatchTouchesOnlyItsFields ==
  /\ []C10_IntentOnlyTouched
  /\ [][C10_ModifyFrame]_vars

C10_Witness ==
  \E p \in Procs :
    /\ inv[p].op = "patch"
    /\ IsDeactivate(inv[p].patch)
    /\ Done(p)
    /\ "pwdAccountLockedTime" \notin DOMAIN inv[p].entry.attrs
    /\ CallOps(inv[p]) = <<"search", "modify", "search">>
    /\ inv[p].result.kind = "ok"
    /\ inv[p].result.value.active = FALSE
    /\ \E n \in 1..Len(dir) :
         /\ dir[n].dn = inv[p].entry.dn
         /\ dir[n].attrs =
              ("pwdAccountLockedTime" :> <<LOCKED_TIME>>) @@ inv[p].entry.attrs

\* RFC 4515 decoding of an assertion value: \XX is the character XX
RECURSIVE Decode4515(_)
Decode4515(v) ==
  IF v = "" THEN ""
  ELSE IF SubSeq(v, 1, 1) = "\\"
  THEN HexChar(SubSeq(v, 2, 3)) \o Decode4515(SubSeq(v, 4, Len(v)))
  ELSE SubSeq(v, 1, 1) \o Decode4515(SubSeq(v, 2, Len(v)))

\* v holds none of * ( ) NUL and every backslash of v starts a \XX pair
WellEscaped(v) ==
  \A k \in 1..Len(v) :
    /\ SubSeq(v, k, k) \notin {"*", "(", ")", NUL}
    /\ SubSeq(v, k, k) = "\\" =>
         (k + 2 <= Len(v) /\ HexChar(SubSeq(v, k + 1, k + 2)) # undefined)

\* filter is prefix, one well-escaped value that decodes to s, suffix
EmbedsOnly(filter, prefix, suffix, s) ==
  /\ Len(filter) >= Len(prefix) + Len(suffix)
  /\ SubSeq(filter, 1, Len(prefix)) = prefix
  /\ SubSeq(filter, Len(filter) - Len(suffix) + 1, Len(filter)) = suffix
  /\ LET v == SubSeq(filter, Len(prefix) + 1, Len(filter) - Len(suffix))
     IN  WellEscaped(v) /\ Decode4515(v) = s

\* the directory attribute a list filter on a recognized SCIM attribute names
RecognizedAttr(name) ==
  CASE ToLowerCase(name) = "id" -> "entryUUID"
    [] ToLowerCase(name) = "externalid" -> "employeeNumber"
    [] ToLowerCase(name) = "username" -> "uid"
    [] OTHER -> undefined

BaseFilter == "(objectClass=inetOrgPerson)"

\* the entryUUIDs of the entries of d, in order, that hold s as a value of attr
LiteralMatches(d, attr, s) ==
  LET Keep(e) == /\ attr \in DOMAIN e.attrs
                 /\ \E k \in 1..Len(e.attrs[attr]) : e.attrs[attr][k] = s
      hits == SelectSeq(d, Keep)
  IN  [k \in 1..Len(hits) |-> hits[k].attrs.entryUUID[1]]

C11_GetAndCreateFilters ==
  \A p \in Procs :
    LET i == inv[p] IN
    /\ (i.op = "get" /\ Done(p)) =>
         /\ EmbedsOnly(i.calls[1].target, "(entryUUID=", ")", i.id)
         /\ i.calls[1].err = "ok"
         /\ (i.result.kind = "ok") = i.held
         /\ i.held => i.result.value.id = i.id
    /\ (i.op = "create" /\ Len(i.calls) >= 1) =>
         /\ \A k \in {1, 3} \cap (1..Len(i.calls)) :
              /\ EmbedsOnly(i.calls[k].target, "(uid=", ")",
                            SplitFirst(i.user.userName, "@"))
              /\ i.calls[k].err # ErrInvalidFilter
         /\ (i.pc = "done" /\ Len(i.calls) = 1) = i.held
         /\ i.held => IsUniqueness(i.result)

C11_ListFilterStep ==
  \A p \in Procs :
    LET i == inv'[p]
        f == i.args.filter
        attr == RecognizedAttr(f.attribute)
        found == LiteralMatches(dir, attr, f.value)
    IN  (inv[p].no # i.no /\ i.op = "list" /\ "filter" \in DOMAIN i.args
         /\ f.operator = "eq" /\ attr # undefined) =>
          /\ EmbedsOnly(i.calls[1].target,
                        "(&" \o BaseFilter \o "(" \o attr \o "=", "))", f.value)
          /\ i.result.kind = "ok"
          /\ i.result.value.totalResults = Len(found)
          /\ Len(i.result.value.users) = Len(found)
          /\ \A k \in 1..Len(found) : i.result.value.users[k].id = found[k]

\* C11: every search filter the backend sends embeds the value the caller
\* supplied (id, externalId, userName, or the local identifier derived from
\* userName) escaped: the filter is its fixed text around one assertion
\* value that holds no raw * ( ) NUL, whose every backslash starts a \XX
\* pair and that decodes to the supplied string; and the search finds
\* exactly the entries that hold the supplied string literally.
C11_FiltersEmbedEscapedValues ==
  /\ []C11_GetAndCreateFilters
  /\ [][C11_ListFilterStep]_vars

C11_Witness ==
  \E p \in Procs :
    /\ inv[p].op = "list"
    /\ Done(p)
    /\ "filter" \in DOMAIN inv[p].args
    /\ inv[p].args.filter.attribute = "userName"
    /\ inv[p].args.filter.value = "a*"
    /\ inv[p].calls[1].target = "(&(objectClass=inetOrgPerson)(uid=a\\2a))"
    /\ inv[p].result.kind = "ok"
    /\ inv[p].result.value.totalResults = 1
    /\ inv[p].result.value.users[1].id = "*"

\* v is the submitted user with the id replaced by a generated placeholder
IsPlaceholderOf(v, user) ==
  /\ DOMAIN v = DOMAIN user \cup {"id"}
  /\ v.id \in RandomUuids
  /\ \A k \in DOMAIN user \ {"id"} : v[k] = user[k]

\* a get of id on directory d finds no entry
GetFindsNothing(d, id) ==
  /\ ~HoldsUuid(d, id)
  /\ client_search(d, IdFilter(id), <<"*", "entryUUID">>, "ok").entries = <<>>

C12_ReadBackStep ==
  \A p \in Procs :
    (/\ inv[p].pc = "create_readback"
     /\ inv'[p].pc = "done"
     /\ inv'[p].calls[3].err = "ok"
     /\ ~HoldsUid(dir, inv[p].uid)) =>
      /\ inv'[p].result.kind = "ok"
      /\ IsPlaceholderOf(inv'[p].result.value, inv[p].user)
      /\ GetFindsNothing(dir', inv'[p].result.value.id)

C12_PlaceholderStaysUnknown ==
  \A p \in Procs :
    (inv[p].op = "create" /\ Done(p) /\ inv[p].result.kind = "ok"
     /\ inv[p].result.value.id \in RandomUuids) =>
      GetFindsNothing(dir, inv[p].result.value.id)

\* C12: when create's add has succeeded and the read-back search answers
\* with no entry (the entry was deleted in between), create returns the
\* submitted user with a generated placeholder id instead of failing; no
\* entry of the directory has that id as entryUUID, then or later, so a
\* get with it finds nothing.
C12_ReadBackFallsBackToPlaceholder ==
  /\ []C12_PlaceholderStaysUnknown
  /\ [][C12_ReadBackStep]_vars

C12_Witness ==
  \E p, q \in Procs :
    /\ inv[p].op = "create"
    /\ Done(p)
    /\ CallOps(inv[p]) = <<"search", "add", "search">>
    /\ inv[p].calls[2].err = "ok"
    /\ inv[p].result.kind = "ok"
    /\ inv[p].result.value.id \in RandomUuids
    /\ inv[q].op = "delete"
    /\ Done(q)
    /\ inv[q].id = inv[p].calls[2].uuid
    /\ inv[q].result.kind = "ok"

\* the entries of d that the filter of a search matches, in directory order
ListMatches(d, filter) ==
  LET Keep(e) == FilterMatches(filter, e) IN SelectSeq(d, Keep)

Min(a, b) == IF a < b THEN a ELSE b
Max(a, b) == IF a > b THEN a ELSE b

C13_ListStep ==
  \A p \in Procs :
    LET i == inv'[p]
        all == ListMatches(dir, i.calls[1].target)
        first == i.args.startIndex - 1
        n == Max(0, Min(i.args.count, Len(all) - first))
    IN  (inv[p].no # i.no /\ i.op = "list" /\ i.result.kind = "ok") =>
          /\ i.result.value.totalResults = Len(all)
          /\ Len(i.result.value.users) = n
          /\ \A k \in 1..n :
               /\ i.result.value.users[k].id = all[first + k].attrs.entryUUID[1]
               /\ i.result.value.users[k].userName = all[first + k].attrs.uid[1]

\* C13: a list with startIndex >= 1 and count >= 0 returns as its page the
\* elements at 0-based positions startIndex-1 up to, not including,
\* startIndex-1+count of the mapped matches in directory order (none when
\* startIndex-1 is at or past the end), and totalResults is the number of
\* matches whatever startIndex and count are.
C13_PageIsHalfOpenSlice == [][C13_ListStep]_vars

C13_Witness ==
  \E p \in Procs :
    /\ inv[p].op = "list"
    /\ Done(p)
    /\ inv[p].no = 1
    /\ "filter" \notin DOMAIN inv[p].args
    /\ inv[p].args.startIndex = 2
    /\ inv[p].args.count = 1
    /\ inv[p].result.kind = "ok"
    /\ inv[p].result.value.totalResults = 3
    /\ Len(inv[p].result.value.users) = 1
    /\ inv[p].result.value.users[1].id = "*"

\* the filter and outcome the list policy prescribes for one invocation
ListFilterByPolicy(i) ==
  LET opts == i.args
      recognized == /\ "filter" \in DOMAIN opts
                    /\ opts.filter.operator = "eq"
                    /\ RecognizedAttr(opts.filter.attribute) # undefined
  IN  /\ recognized =>
           EmbedsOnly(i.calls[1].target,
                      "(&" \o BaseFilter \o "(" \o RecognizedAttr(opts.filter.attribute)
                      \o "=", "))", opts.filter.value)
      /\ ~recognized => i.calls[1].target = BaseFilter
      /\ i.calls[1].err = "ok" => i.result.kind = "ok"
      /\ i.calls[1].err # ErrInvalidFilter

\* C14: a list with an eq filter on id, externalId or userName (any case)
\* searches with the base object-class filter ANDed with one escaped
\* equality on entryUUID, employeeNumber or uid; with no filter, another
\* operator or any other attribute name it searches with exactly the base
\* object-class filter, and raises no error.
C14_ListFilterPolicy ==
  \A p \in Procs :
    (inv[p].op = "list" /\ Done(p)) => ListFilterByPolicy(inv[p])

\* the same, for every attribute name but those Object.prototype defines
C14_PolicyForOwnKeys ==
  \A p \in Procs :
    (/\ inv[p].op = "list"
     /\ Done(p)
     /\ "filter" \in DOMAIN inv[p].args =>
          inv[p].args.filter.attribute \notin {"constructor", "__proto__"}) =>
      ListFilterByPolicy(inv[p])

\* C15: a SCIM user mapped to directory attributes, given an entryUUID
\* and mapped back is inactive when the user's active is false, and active
\* when the user's active is true or absent.
C15_ActiveSurvivesRoundTrip ==
  \A p \in Procs :
    (inv[p].op = "roundtrip" /\ Done(p)) =>
      LET user == inv[p].args.user
      IN  inv[p].result.value.active =
            ~("active" \in DOMAIN user /\ user.active = FALSE)

C15_Witness ==
  \E p \in Procs :
    /\ inv[p].op = "roundtrip"
    /\ Done(p)
    /\ inv[p].no = 2
    /\ "active" \in DOMAIN inv[p].args.user
    /\ inv[p].args.user.active = FALSE
    /\ inv[p].args.entry.attrs.pwdAccountLockedTime = <<LOCKED_TIME>>
    /\ inv[p].result.value.active = FALSE

\* C16: a directory entry mapped to its SCIM view, and that view, with no
\* field changed, turned into a modification intent, gives an empty intent:
\* the no-op update issues no modify and leaves the entry as it was.
C16_NoOpUpdateHasEmptyIntent ==
  \A p \in Procs :
    (inv[p].op = "noop_update" /\ Done(p)) =>
      /\ Len(inv[p].result.value) = 0
      /\ inv[p].args.after = inv[p].args.entry.attrs

\* the part of C16 about the entry alone: applying the intent leaves it as it was
C16_NoOpUpdateKeepsEntry ==
  \A p \in Procs :
    (inv[p].op = "noop_update" /\ Done(p)) =>
      inv[p].args.after = inv[p].args.entry.attrs

\* the attribute names a search asked the directory for
Requested(attributes) ==
  LET asked == RequestedAttributes(attributes)
  IN  {asked[k] : k \in 1..Len(asked)}

\* C17: every search the executor issues asks for entryUUID, when the
\* caller passes no attribute list and when the caller's list omits it: the
\* entries it returns carry their entryUUID.
C17_SearchAlwaysAsksEntryUuid ==
  \A p \in Procs :
    (inv[p].op = "x_search" /\ Done(p) /\ inv[p].result.kind = "ok") =>
      /\ "entryUUID" \in Requested(inv[p].args.attributes)
      /\ \A k \in 1..Len(inv[p].result.value) :
           "entryUUID" \in DOMAIN inv[p].result.value[k].attrs

\* the half of C17 the code keeps: a search with no attribute list
C17_DefaultAsksEntryUuid ==
  \A p \in Procs :
    (inv[p].op = "x_search" /\ Done(p) /\ inv[p].result.kind = "ok"
     /\ inv[p].args.attributes = NoAttributes) =>
      /\ "entryUUID" \in Requested(inv[p].args.attributes)
      /\ \A k \in 1..Len(inv[p].result.value) :
           "entryUUID" \in DOMAIN inv[p].result.value[k].attrs

Mutating == {"create", "replace", "patch", "delete"}

WriteOps == {"add", "modify", "delete"}

\* the positions of the directory writes an invocation issued
Writes(i) ==
  {k \in 1..Len(i.calls) : i.calls[k].op \in WriteOps /\ i.calls[k].issued}

\* directory `d` holds an entry named `dn` whose entryUUID is `id`
Located(d, id, dn) ==
  \E n \in 1..Len(d) :
    /\ d[n].dn = dn
    /\ "entryUUID" \in DOMAIN d[n].attrs
    /\ \E k \in 1..Len(d[n].attrs.entryUUID) : d[n].attrs.entryUUID[k] = id

\* locate, act, optional re-locate: at most three executor calls, the
\* second the only write, all calls before the last one successful
C18_LinearSequence ==
  \A p \in Procs :
    LET i == inv[p]
    IN  i.op \in Mutating =>
          /\ Len(i.calls) <= 3
          /\ Cardinality(Writes(i)) <= 1
          /\ \A k \in 1..Len(i.calls) :
               /\ (i.calls[k].op \in WriteOps) = (k = 2)
               /\ k < Len(i.calls) => i.calls[k].err = "ok"
               /\ i.calls[k].err # "ok" => i.pc = "done"
          /\ (Len(i.calls) >= 2 /\ i.op # "create") =>
               i.calls[2].target = i.entry.dn

\* the search of replace/patch/delete hands the act step the DN of the
\* entry it found; a sub-step that fails changes nothing in the directory
\* and ends the invocation
C18_SubStep ==
  \A p \in Procs :
    LET i == inv'[p]
    IN  (i.op \in Mutating /\ Len(i.calls) # Len(inv[p].calls)) =>
          /\ (i.pc \in {"replace_modify", "patch_modify", "delete_delete"}) =>
               /\ dir' = dir
               /\ Located(dir, i.id, i.entry.dn)
          /\ i.calls[Len(i.calls)].err # "ok" =>
               /\ dir' = dir
               /\ i.pc = "done"
               /\ i.result.kind # "ok"

\* C18: every mutating backend operation is a linear sequence locate, act,
\* optional re-locate: it issues at most one directory write, the write
\* follows a successful search of the same invocation and, for replace,
\* patch and delete, targets the DN that search returned; once a sub-step
\* fails the operation issues no further call, so the directory stays as
\* the last successful sub-step left it and no compensating write is made.
C18_LocateActRelocate ==
  /\ []C18_LinearSequence
  /\ [][C18_SubStep]_vars

\* a replace whose modify failed after a successful locate, and a create
\* whose read-back failed after the add went through
C18_Witness ==
  /\ inv["p1"].op = "replace"
  /\ Done("p1")
  /\ CallOps(inv["p1"]) = <<"search", "modify">>
  /\ inv["p1"].calls[2].issued
  /\ inv["p1"].calls[2].err # "ok"
  /\ inv["p2"].op = "create"
  /\ Done("p2")
  /\ CallOps(inv["p2"]) = <<"search", "add", "search">>
  /\ inv["p2"].calls[3].err # "ok"
  /\ HoldsUid(dir, inv["p2"].uid)

\* the part of a userName before its first "@"
LocalIdentifier(userName) ==
  LET ats == {k \in 1..Len(userName) : SubSeq(userName, k, k) = "@"}
  IN  IF ats = {} THEN userName
      ELSE SubSeq(userName, 1, (CHOOSE k \in ats : \A j \in ats : k <= j) - 1)

\* the values an intent gives attribute attr
IntentValues(mods, attr) ==
  {mods[k].value : k \in {j \in 1..Len(mods) : mods[j].attribute = attr}}

\* C19: for a partial update that contains userName: with no displayName
\* in the update the intent sets both uid and cn to the new local identifier
\* (userName before the first "@"); with a displayName in the update uid is
\* the new local identifier and cn is the displayName.
C19_UserNameRederivesUidAndCn ==
  \A p \in Procs :
    LET partial == inv[p].args.partial
        mods == inv[p].result.value
    IN  (inv[p].op = "intent" /\ Done(p) /\ "userName" \in DOMAIN partial) =>
          /\ IntentValues(mods, "uid") = {<<LocalIdentifier(partial.userName)>>}
          /\ IF "displayName" \notin DOMAIN partial
             THEN IntentValues(mods, "cn")
                    = {<<LocalIdentifier(partial.userName)>>}
             ELSE partial.displayName # null =>
                    IntentValues(mods, "cn") = {<<partial.displayName>>}

\* the part of C19 the code keeps: uid follows the userName, and a
\* displayName in the same update wins for cn
C19_UidFollowsAndDisplayNameWins ==
  \A p \in Procs :
    LET partial == inv[p].args.partial
        mods == inv[p].result.value
    IN  (inv[p].op = "intent" /\ Done(p) /\ "userName" \in DOMAIN partial) =>
          /\ IntentValues(mods, "uid") = {<<LocalIdentifier(partial.userName)>>}
          /\ IF "displayName" \notin DOMAIN partial
             THEN IntentValues(mods, "cn") = {}
             ELSE partial.displayName # null =>
                    IntentValues(mods, "cn") = {<<partial.displayName>>}

\* RFC 4514: the characters of an attribute value that are escaped wherever
\* they stand
DnSpecials == {"\\", ",", "+", "\"", "<", ">", ";"}

\* character k of value s has to be escaped in a DN
NeedsEscape(s, k) ==
  LET c == SubSeq(s, k, k)
  IN  \/ c \in DnSpecials
      \/ k = 1 /\ c \in {" ", "#"}
      \/ k = Len(s) /\ c = " "

\* an escaped value read as RFC 4514 reads it: a backslash and the character
\* after it are one escaped character, any other character stands for itself
RECURSIVE Units4514(_)
Units4514(e) ==
  IF e = "" THEN <<>>
  ELSE IF SubSeq(e, 1, 1) = "\\" /\ Len(e) >= 2
  THEN <<[c |-> SubSeq(e, 2, 2), esc |-> TRUE]>>
       \o Units4514(SubSeq(e, 3, Len(e)))
  ELSE <<[c |-> SubSeq(e, 1, 1), esc |-> FALSE]>>
       \o Units4514(SubSeq(e, 2, Len(e)))

RECURSIVE Unescaped(_)
Unescaped(units) ==
  IF units = <<>> THEN "" ELSE Head(units).c \o Unescaped(Tail(units))

Decode4514(e) == Unescaped(Units4514(e))

\* escaped value e stands for s with every character that needs an escape
\* escaped once and no other character escaped
EscapedOnce(e, s) ==
  LET units == Units4514(e)
  IN  /\ Len(units) = Len(s)
      /\ \A k \in 1..Len(units) :
           /\ units[k].c = SubSeq(s, k, k)
           /\ units[k].esc = NeedsEscape(s, k)

\* C20: for every input string s the output of the DN-value escaper decodes
\* back to s under RFC 4514 unescaping: each backslash, comma, plus, double
\* quote, angle bracket and semicolon has exactly one escaping backslash, a
\* leading space or hash and a trailing space are escaped, and no character
\* is escaped twice.
C20_EscapeDnDecodesBack ==
  \A p \in Procs :
    (inv[p].op = "escape_dn" /\ Done(p)) =>
      /\ Decode4514(inv[p].result.value) = inv[p].args.value
      /\ EscapedOnce(inv[p].result.value, inv[p].args.value)
      /\ inv[p].args.dn = "uid=" \o inv[p].result.value \o "," \o BaseDn

\* the part of C20 the code keeps: every value but the single space
C20_EscapeDnExceptLoneSpace ==
  \A p \in Procs :
    (inv[p].op = "escape_dn" /\ Done(p) /\ inv[p].args.value # " ") =>
      /\ Decode4514(inv[p].result.value) = inv[p].args.value
      /\ EscapedOnce(inv[p].result.value, inv[p].args.value)
      /\ inv[p].args.dn = "uid=" \o inv[p].result.value \o "," \o BaseDn

\* the number of entries of directory d whose uid is `uid`
CountUid(d, uid) ==
  Cardinality({n \in 1..Len(d) :
                 /\ "uid" \in DOMAIN d[n].attrs
                 /\ \E k \in 1..Len(d[n].attrs.uid) : d[n].attrs.uid[k] = uid})

\* the directory answered every call of the invocation, with success or
\* with "already exists"
DirectoryAnswered(i) ==
  \A k \in 1..Len(i.calls) : i.calls[k].err \in {"ok", ErrAlreadyExists}

IsConflict(result) ==
  /\ result.kind = "ScimBackendError"
  /\ result.status = 409
  /\ result.scimType = "uniqueness"

\* C21: for any interleaving of two create calls whose userNames derive the
\* same local identifier, on a directory that rejects an add to an existing
\* DN with "already exists": at most one of the two returns success, the
\* other fails with a uniqueness conflict (409) from the pre-check or from
\* the mapped add failure, and the directory ends with exactly one entry for
\* that local identifier.
C21_OneCreateWins ==
  \A p, q \in Procs :
    LET i == inv[p]
        j == inv[q]
    IN  (p # q /\ i.op = "create" /\ j.op = "create" /\ i.uid = j.uid) =>
          /\ CountUid(dir, i.uid) <= 1
          /\ (Done(p) /\ Done(q)) =>
               /\ ~(i.result.kind = "ok" /\ j.result.kind = "ok")
               /\ (DirectoryAnswered(i) /\ i.result.kind # "ok") =>
                    IsConflict(i.result)
               /\ (DirectoryAnswered(i) /\ DirectoryAnswered(j)) =>
                    /\ CountUid(dir, i.uid) = 1
                    /\ (~i.held /\ ~j.held) =>
                         (i.result.kind = "ok" \/ j.result.kind = "ok")

\* both creates passed the pre-check before either add: one add went
\* through, the other was rejected and mapped to 409
C21_Witness ==
  /\ inv["p1"].op = "create"
  /\ inv["p2"].op = "create"
  /\ Done("p1")
  /\ Done("p2")
  /\ inv["p1"].uid = inv["p2"].uid
  /\ inv["p1"].user.userName # inv["p2"].user.userName
  /\ Len(inv["p1"].calls) = 2
  /\ inv["p1"].calls[2].err = ErrAlreadyExists
  /\ IsConflict(inv["p1"].result)
  /\ inv["p2"].result.kind = "ok"
  /\ CountUid(dir, inv["p1"].uid) = 1

\* the positions of the modifications the directory applied for an invocation
AppliedModifies(i) ==
  {k \in 1..Len(i.calls) :
     i.calls[k].op = "modify" /\ i.calls[k].issued /\ i.calls[k].err = "ok"}

\* C22: under any interleaving with other backend operations, a concurrent
\* delete of the same id among them, whenever replace or patch fails with a
\* not-found error that invocation has applied no modification to the
\* directory.
C22_NotFoundMeansUnmodified ==
  \A p \in Procs :
    (inv[p].op \in {"replace", "patch"} /\ Done(p)
     /\ IsNotFound(inv[p].result)) =>
      AppliedModifies(inv[p]) = {}

\* the part of C22 the code keeps: a not-found raised by the locate step or
\* by the modify itself comes with no modification applied
C22_NotFoundBeforeRereadUnmodified ==
  \A p \in Procs :
    (inv[p].op \in {"replace", "patch"} /\ Done(p)
     /\ IsNotFound(inv[p].result) /\ Len(inv[p].calls) <= 2) =>
      AppliedModifies(inv[p]) = {}

=============================================================================
